---------------------------- MODULE Spec2Model ----------------------------
(***************************************************************************)
(* SureSQL node: session / connection life cycle.                          *)
(*                                                                         *)
(* The model follows server/internal.go (HandleConnect, HandleRefresh),    *)
(* the token store (TokenStoreStruct), the node (SureSQLNode in            *)
(* db_node.go / models.go), the metrics counters (NodeMetrics) and the     *)
(* connection manager (ConnectionManager).  Handlers are not atomic: each  *)
(* request runs in its own goroutine and no lock is taken around the       *)
(* accesses to the shared maps, so every handler is cut into steps at its  *)
(* accesses to shared state and pc[p] records where request p stands.      *)
(*                                                                         *)
(* Time is counted in ticks of 24 hours.  A TTL map entry carries the      *)
(* number of ticks it still has to live; Tick lets one tick elapse.        *)
(***************************************************************************)
EXTENDS Naturals, FiniteSets, TLC

(***************************************************************************)
(* Bounds of the model.                                                    *)
(***************************************************************************)
\* requests served over a whole run, each by a goroutine of its own; the
\* connect request p authenticates as user p
NProcs == 3
\* largest pool capacity the settings table configures
MaxPoolCfg == 2

\* DEFAULT_TOKEN_EXPIRES_MINUTES   (24 h) in ticks
TokenExp == 1
\* DEFAULT_REFRESH_EXPIRES_MINUTES (48 h) in ticks
RefreshExp == 2

Procs == 1..NProcs
\* the empty token: no token store ever holds it
NoToken == 0

VARIABLES
    IsPoolEnabled,       \* CurrentNode.IsPoolEnabled
    MaxPool,             \* CurrentNode.MaxPool
    DBConnections,       \* CurrentNode.DBConnections : access token -> driver
    InternalConnection,  \* CurrentNode.InternalConnection : "open" | "closed"
    TokenMap,            \* TokenStore.TokenMap        : access token  -> record
    RefreshTokenMap,     \* TokenStore.RefreshTokenMap : refresh token -> record
    tokens,              \* every TokenTable minted so far: id -> [UserName]
    drivers,             \* every driver opened by NewDatabase: id -> "open" | "closed"
    Metrics,             \* the NodeMetrics counters
    pc,                  \* where the handler of request p stands
    req,                 \* the request p as the client sent it
    tokmap,              \* HandleRefresh: the record RefreshTokenExist returned
    newDB,               \* the driver this handler opened (and its token pair)
    resp,                \* the response to request p
    issued,              \* token pairs returned to clients in a response
    consumed,            \* refresh tokens a successful refresh presented
    poolBefore,          \* HandleRefresh: the pool's keys when the request was accepted
    cm,                  \* ConnectionManager's cleanup routine
    connectReq,          \* HandleConnect: the UserTable decoded from the request body
    user,                \* HandleConnect: the UserTable loaded by userNameExist
    now,                 \* time.Now(), in units of 30 seconds
    LastPoolExhaustion,  \* Metrics.LastPoolExhaustion
    am,                  \* the AlertManager: alerts, lastPoolWarning, lastPoolCritical
    log,                 \* every alert created since the history was last cleared
    recent,              \* what GetRecentAlerts returned last
    loadChanges,         \* changes of the pool load seen by the alert manager
    Config,              \* CurrentNode.Config, durations in seconds
    Settings,            \* CurrentNode.Settings : category -> key -> IntValue
    Status,              \* CurrentNode.Status : MaxPool, Peers, NodeNumber
    TokenStore,          \* the default TTL of each map of the token store
    Env,                 \* the SURESQL_ environment of the process
    db,                  \* the _configs row and the _settings rows
    startup,             \* how far the start of the node has come
    applied,             \* calls of ApplyAllConfig so far
    request,             \* the data request the dispatcher handled last
    calls,               \* the driver operations that request invoked
    response,            \* the response to that request
    sup,                 \* the two supervisors: flags, mutex, channel, goroutine
    hook                 \* CleanupAllConnections: where it stands, its count

vars == << IsPoolEnabled, MaxPool, DBConnections, InternalConnection, TokenMap,
           RefreshTokenMap, tokens, drivers, Metrics, pc, req, tokmap, newDB,
           resp, issued, consumed, poolBefore, cm, connectReq, user, now,
           LastPoolExhaustion, am, log, recent, loadChanges, Config, Settings,
           Status, TokenStore, Env, db, startup, applied, request, calls,
           response, sup, hook >>

\* what the session handlers never touch
amVars == << now, am, log, recent, loadChanges >>

\* what only the start of the node and ApplyAllConfig write
cfgVars == << Config, Settings, Status, TokenStore, Env, db, startup, applied >>

\* what only the handlers of the data requests write
dispVars == << request, calls, response >>

\* what only the supervisors and the shutdown hook write
shutVars == << sup, hook >>

(***************************************************************************)
(* TTL map (medattlmap.TTLMap): key -> [ttl, val], ttl the ticks left.     *)
(***************************************************************************)
EmptyMap == [k \in {} |-> [ttl |-> 0, val |-> 0]]

\* Put(k, ttl, v): ttl = 0 uses the map's default TTL
Put(m, dflt, k, ttl, v) ==
    [x \in DOMAIN m \cup {k} |->
        IF x = k THEN [ttl |-> IF ttl = 0 THEN dflt ELSE ttl, val |-> v]
                 ELSE m[x]]

Delete(m, k) == [x \in DOMAIN m \ {k} |-> m[x]]

Len(m) == Cardinality(DOMAIN m)

\* one tick elapses: entries at the end of their life are dropped
Sweep(m) ==
    [x \in {y \in DOMAIN m : m[y].ttl > 1} |-> [m[x] EXCEPT !.ttl = @ - 1]]

(***************************************************************************)
(* Token store.                                                            *)
(***************************************************************************)
\* SaveToken forgetting the refresh map
SaveTokenAccessOnly(token) ==
    /\ TokenMap' = Put(TokenMap, TokenExp, token, 0, token)
    /\ RefreshTokenMap' = RefreshTokenMap

\* Token record id carries access token id and refresh token id.
SaveToken(token) ==
    /\ TokenMap' = Put(TokenMap, TokenExp, token, 0, token)
    /\ RefreshTokenMap' = Put(RefreshTokenMap, RefreshExp, token, 0, token)

TokenExist(token) ==
    IF token \in DOMAIN TokenMap
    THEN [ok |-> TRUE, tok |-> TokenMap[token].val]
    ELSE [ok |-> FALSE, tok |-> NoToken]

\* RefreshTokenExist looking the token up in the access map
RefreshTokenExistInAccessMap(token) ==
    IF token \in DOMAIN TokenMap
    THEN [ok |-> TRUE, tok |-> TokenMap[token].val]
    ELSE [ok |-> FALSE, tok |-> NoToken]

RefreshTokenExist(token) ==
    IF token \in DOMAIN RefreshTokenMap
    THEN [ok |-> TRUE, tok |-> RefreshTokenMap[token].val]
    ELSE [ok |-> FALSE, tok |-> NoToken]

(***************************************************************************)
(* Node.                                                                   *)
(***************************************************************************)
IsPoolAvailable == IsPoolEnabled /\ Len(DBConnections) < MaxPool

\* [ok, db]: db = 0 stands for the internal connection
GetDBConnectionByToken(token) ==
    IF IsPoolEnabled
    THEN IF token \in DOMAIN DBConnections
         THEN [ok |-> TRUE, db |-> DBConnections[token].val]
         ELSE [ok |-> FALSE, db |-> 0]
    ELSE [ok |-> TRUE, db |-> 0]

(***************************************************************************)
(* Metrics: atomic counters.                                               *)
(***************************************************************************)
Counters == { "ConnectionsCreated", "ConnectionsClosed", "PoolExhaustionCount",
              "TokensCreated", "TokensExpired", "RefreshTokensUsed",
              "AuthenticationAttempts", "AuthenticationFailures",
              "QueriesExecuted", "QueriesFailed" }

Add(m, c, n) == [m EXCEPT ![c] = @ + n]

RecordConnectionCreated(m) == Add(m, "ConnectionsCreated", 1)
RecordConnectionClosed(m) == Add(m, "ConnectionsClosed", 1)
\* the counter; the caller stamps LastPoolExhaustion
RecordPoolExhaustion(m) == Add(m, "PoolExhaustionCount", 1)
RecordTokenCreated(m) == Add(m, "TokensCreated", 1)
RecordRefreshTokenUsed(m) == Add(m, "RefreshTokensUsed", 1)
RecordAuthentication(m, success) ==
    IF success THEN Add(m, "AuthenticationAttempts", 1)
    ELSE Add(Add(m, "AuthenticationAttempts", 1), "AuthenticationFailures", 1)
RecordQuery(m, success) ==
    IF success THEN Add(m, "QueriesExecuted", 1)
    ELSE Add(Add(m, "QueriesExecuted", 1), "QueriesFailed", 1)

(***************************************************************************)
(* Health: GetMetrics' pool usage and GetHealthStatus.                     *)
(***************************************************************************)
\* snapshot.ConnectionPoolUsagePct >= pct; the percentage stays 0 when MaxPool
\* is 0
ConnectionPoolUsageAtLeast(pct) ==
    MaxPool > 0 /\ Len(DBConnections) * 100 >= pct * MaxPool

\* [status, issues]; the checks run in this order and each overwrites status
GetHealthStatus ==
    LET pool == ConnectionPoolUsageAtLeast(90)
        auth == /\ Metrics.AuthenticationAttempts > 0
                /\ Metrics.AuthenticationFailures * 100
                       > 50 * Metrics.AuthenticationAttempts
        query == /\ Metrics.QueriesExecuted > 0
                 /\ Metrics.QueriesFailed * 100 > 10 * Metrics.QueriesExecuted
        down == InternalConnection # "open"
    IN [status |-> IF query \/ down THEN "unhealthy"
                   ELSE IF pool \/ auth THEN "degraded"
                   ELSE "healthy",
        issues |-> (IF pool THEN {"connection pool near capacity"} ELSE {})
                   \cup (IF auth THEN {"high authentication failure rate"} ELSE {})
                   \cup (IF query THEN {"high query failure rate"} ELSE {})
                   \cup (IF down THEN {"database not connected"} ELSE {})]

(***************************************************************************)
(* AlertManager.  Time is counted in units of 30 seconds (checkInterval);  *)
(* the zero time.Time is 0.                                                 *)
(***************************************************************************)
\* maxAlerts: 100
maxAlerts == 100
\* poolWarningThreshold: 75.0
poolWarningThreshold == 75
\* poolCriticalThreshold: 90.0
poolCriticalThreshold == 90
\* alertCooldown: 5 * time.Minute
alertCooldown == 10
\* the window of the exhaustion rule: 5*time.Minute
exhaustionWindow == 10

NewAlertManager == [alerts |-> << >>, lastPoolWarning |-> 0, lastPoolCritical |-> 0]

\* slices: len, append, s[len(s)-n:]
Size(s) == Cardinality(DOMAIN s)
AppendTo(s, e) == [i \in 1..(Size(s) + 1) |-> IF i <= Size(s) THEN s[i] ELSE e]
LastN(s, n) == [i \in 1..n |-> s[Size(s) - n + i]]

Alert(level, title, message) ==
    [Level |-> level, Title |-> title, Message |-> message, Timestamp |-> now']

\* CreateAlert keeping the oldest maxAlerts alerts
CreateAlertKeepOldest(a, level, title, message) ==
    LET all == AppendTo(a.alerts, Alert(level, title, message)) IN
    [a EXCEPT !.alerts = IF Size(all) > maxAlerts
                         THEN [i \in 1..maxAlerts |-> all[i]] ELSE all]

CreateAlert(a, level, title, message) ==
    LET all == AppendTo(a.alerts, Alert(level, title, message)) IN
    [a EXCEPT !.alerts = IF Size(all) > maxAlerts
                         THEN LastN(all, maxAlerts) ELSE all]

GetRecentAlerts(a, limit) ==
    LET lim == IF limit = 0 \/ limit > Size(a.alerts) THEN Size(a.alerts)
               ELSE limit IN
    IF Size(a.alerts) <= lim THEN a.alerts ELSE LastN(a.alerts, lim)

ClearAlerts(a) == [a EXCEPT !.alerts = << >>]

\* time.Since(t) at the end of the step
Since(t) == now' - t

\* usagePct >= threshold, with usagePct = active / MaxPool * 100
UsageAtLeast(threshold) == Len(DBConnections) * 100 >= threshold * MaxPool

checkConnectionPool(a) ==
    IF MaxPool = 0 THEN a
    ELSE
      LET a1 == IF UsageAtLeast(poolCriticalThreshold)
                THEN IF Since(a.lastPoolCritical) > alertCooldown
                     THEN [CreateAlert(a, "CRITICAL", "Connection Pool Critical", 0)
                              EXCEPT !.lastPoolCritical = now']
                     ELSE a
                ELSE IF UsageAtLeast(poolWarningThreshold)
                THEN IF Since(a.lastPoolWarning) > alertCooldown
                     THEN [CreateAlert(a, "WARNING", "Connection Pool High Usage", 0)
                              EXCEPT !.lastPoolWarning = now']
                     ELSE a
                ELSE a
      IN IF Metrics.PoolExhaustionCount > 0
            /\ Since(LastPoolExhaustion) < exhaustionWindow
         THEN CreateAlert(a1, "CRITICAL", "Connection Pool Exhaustion", 0)
         ELSE a1

checkAuthenticationFailures(a) ==
    IF Metrics.AuthenticationAttempts < 10 THEN a
    ELSE IF Metrics.AuthenticationFailures * 100 > 50 * Metrics.AuthenticationAttempts
         THEN CreateAlert(a, "WARNING", "High Authentication Failure Rate", 0)
         ELSE a

checkQueryFailures(a) ==
    IF Metrics.QueriesExecuted < 10 THEN a
    ELSE IF Metrics.QueriesFailed * 100 > 25 * Metrics.QueriesExecuted
         THEN CreateAlert(a, "CRITICAL", "High Query Failure Rate", 0)
         ELSE IF Metrics.QueriesFailed * 100 > 10 * Metrics.QueriesExecuted
         THEN CreateAlert(a, "WARNING", "Elevated Query Failure Rate", 0)
         ELSE a

checkSystemHealth(a) ==
    checkQueryFailures(checkAuthenticationFailures(checkConnectionPool(a)))

(***************************************************************************)
(* Requests and responses.                                                 *)
(***************************************************************************)
NoReq == [kind |-> "none", known |-> FALSE, pwOK |-> FALSE, Refresh |-> NoToken]
NoResp == [status |-> 0, token |-> NoToken]

Idle(p) == pc[p] = "idle"

\* no data request was handled yet
NoRequest ==
    [handler |-> "none", token |-> NoToken, bindOK |-> FALSE,
     body |-> [Records |-> << >>, SameTable |-> FALSE],
     result |-> [err |-> "nil", rows |-> << >>]]
NoResponse == [status |-> 0, data |-> [Message |-> ""]]

NextId == Cardinality(DOMAIN drivers) + 1

Respond(p, status, token) ==
    /\ pc' = [pc EXCEPT ![p] = "done"]
    /\ resp' = [resp EXCEPT ![p] = [status |-> status, token |-> token]]
    /\ poolBefore' = [poolBefore EXCEPT ![p] = {}]

\* the alert supervisor (AlertManager) and the cleanup supervisor
\* (ConnectionManager); sup is one of them
Supervisors == {"alert", "cleanup"}

\* goroutines that call Stop on one supervisor
StopCallers == 2

\* calls of Start on one supervisor, one after the other
MaxStarts == 2

\* NewAlertManager, NewConnectionManager: nothing started, the stop channel
\* made, the mutex free
NewSupervisor(kind) ==
    [kind |-> kind, running |-> FALSE, mu |-> 0, ticker |-> "nil", tick |-> FALSE,
     stopChan |-> "open", ctx |-> "live", wg |-> 0, start |-> "idle",
     starts |-> 0,
     loop |-> "none", stop |-> [c \in 1..StopCallers |-> "idle"]]

\* CleanupAllConnections not called
NoHook == [pc |-> "idle", allConnections |-> {}, entries |-> {}, count |-> 0]

\* no request was received yet
NoRequests ==
    /\ TokenMap = EmptyMap
    /\ RefreshTokenMap = EmptyMap
    /\ tokens = [k \in {} |-> [UserName |-> 0]]
    /\ drivers = [k \in {} |-> "open"]
    /\ pc = [p \in Procs |-> "idle"]
    /\ req = [p \in Procs |-> NoReq]
    /\ tokmap = [p \in Procs |-> NoToken]
    /\ newDB = [p \in Procs |-> 0]
    /\ resp = [p \in Procs |-> NoResp]
    /\ issued = {}
    /\ consumed = {}
    /\ poolBefore = [p \in Procs |-> {}]
    /\ cm = [pc |-> "wait", sizeBefore |-> 0]
    /\ connectReq = [p \in Procs |-> [Password |-> ""]]
    /\ user = [p \in Procs |-> [Password |-> ""]]
    /\ request = NoRequest
    /\ calls = << >>
    /\ response = NoResponse

\* no supervisor started, the shutdown hook not called
NoShutdown ==
    /\ sup = NewSupervisor("alert")
    /\ hook = NoHook

(***************************************************************************)
(* Configuration: the _configs row, the environment, the _settings rows.  *)
(* Durations are counted in seconds.                                       *)
(***************************************************************************)
\* 24 * 60 * time.Minute
DEFAULT_TOKEN_EXPIRES_MINUTES == 86400
\* 48 * 60 * time.Minute
DEFAULT_REFRESH_EXPIRES_MINUTES == 172800
\* 5 * time.Minute
DEFAULT_TTL_TICKER_MINUTES == 300
DEFAULT_MAX_POOL == 25
DEFAULT_POOL_ENABLED == TRUE

SETTING_CATEGORY_TOKEN == "token"
SETTING_KEY_TOKEN_EXP == "token_exp"
SETTING_KEY_REFRESH_EXP == "refresh_exp"
SETTING_KEY_TOKEN_TTL == "token_ttl"
SETTING_CATEGORY_CONNECTION == "connection"
SETTING_KEY_MAX_POOL == "max_pool"
SETTING_KEY_ENABLE_POOL == "pool_on"
SETTING_CATEGORY_NODES == "nodes"

\* make(Settings): no row in any category
NoSettings ==
    [c \in {SETTING_CATEGORY_TOKEN, SETTING_CATEGORY_CONNECTION,
            SETTING_CATEGORY_NODES} |-> [k \in {} |-> 0]]

\* the zero value of ConfigTable
ZeroConfig ==
    [Host |-> "", NodeNumber |-> 0, TokenExp |-> 0, RefreshExp |-> 0,
     TTLTicker |-> 0]

\* the zero value of orm.NodeStatusStruct
ZeroStatus == [MaxPool |-> 0, Peers |-> {}, NodeNumber |-> 0]

\* CurrentNode as the variables hold it
Node ==
    [Config |-> Config, Settings |-> Settings, Status |-> Status,
     MaxPool |-> MaxPool, IsPoolEnabled |-> IsPoolEnabled]

\* Settings.SettingExist: is there a row for (category, key)
SettingExist(c, category, key) ==
    category \in DOMAIN c /\ key \in DOMAIN c[category]

\* time.Duration(tmp.IntValue) * time.Minute
Minutes(IntValue) == IntValue * 60

\* SureSQLNode.ApplySettings(category, key): the node after the call
ApplySettings(n, category, key) ==
    LET ok == SettingExist(n.Settings, category, key)
        tmp == n.Settings[category][key]
    IN  IF category = SETTING_CATEGORY_TOKEN /\ key = SETTING_KEY_TOKEN_EXP
        THEN [n EXCEPT !.Config.TokenExp =
                 IF ~ok THEN DEFAULT_TOKEN_EXPIRES_MINUTES ELSE Minutes(tmp)]
        ELSE IF category = SETTING_CATEGORY_TOKEN /\ key = SETTING_KEY_REFRESH_EXP
        THEN [n EXCEPT !.Config.RefreshExp =
                 IF ~ok THEN DEFAULT_REFRESH_EXPIRES_MINUTES ELSE Minutes(tmp)]
        ELSE IF category = SETTING_CATEGORY_TOKEN /\ key = SETTING_KEY_TOKEN_TTL
        THEN [n EXCEPT !.Config.TTLTicker =
                 IF ~ok THEN DEFAULT_TTL_TICKER_MINUTES ELSE Minutes(tmp)]
        ELSE IF category = SETTING_CATEGORY_CONNECTION /\ key = SETTING_KEY_ENABLE_POOL
        THEN [n EXCEPT !.IsPoolEnabled =
                 IF ok THEN tmp = 1 ELSE DEFAULT_POOL_ENABLED]
        ELSE IF category = SETTING_CATEGORY_CONNECTION /\ key = SETTING_KEY_MAX_POOL
        THEN [n EXCEPT !.MaxPool =
                 IF ok
                 THEN IF tmp = 0 /\ n.IsPoolEnabled THEN DEFAULT_MAX_POOL ELSE tmp
                 ELSE DEFAULT_MAX_POOL]
        ELSE IF category = SETTING_CATEGORY_NODES
        THEN LET rows == n.Settings[SETTING_CATEGORY_NODES]
             IN  [n EXCEPT !.Status.Peers =
                     @ \cup { rows[k] : k \in { r \in DOMAIN rows :
                                  rows[r] # n.Config.NodeNumber } }]
        ELSE n

\* SureSQLNode.ApplyAllConfig: the six calls in the order of the code
ApplyAllConfig(n) ==
    LET n1 == ApplySettings(n, SETTING_CATEGORY_CONNECTION, SETTING_KEY_MAX_POOL)
        n2 == ApplySettings(n1, SETTING_CATEGORY_CONNECTION, SETTING_KEY_ENABLE_POOL)
        n3 == ApplySettings(n2, SETTING_CATEGORY_TOKEN, SETTING_KEY_TOKEN_EXP)
        n4 == ApplySettings(n3, SETTING_CATEGORY_TOKEN, SETTING_KEY_REFRESH_EXP)
        n5 == ApplySettings(n4, SETTING_CATEGORY_TOKEN, SETTING_KEY_TOKEN_TTL)
    IN  ApplySettings(n5, SETTING_CATEGORY_NODES, "no need key")

\* GetStatusInternal(db, NODE_MODE): a Status.MaxPool of 0 is filled in
GetStatusInternal(n) ==
    IF n.Status.MaxPool = 0
    THEN [n EXCEPT !.Status.MaxPool =
             IF n.MaxPool # 0 THEN n.MaxPool ELSE DEFAULT_MAX_POOL]
    ELSE n

\* SureSQLNode.GetStatusFromSettings: the status fields copied from Config
GetStatusFromSettings(n) ==
    [n EXCEPT !.Status.NodeNumber = n.Config.NodeNumber]

\* OverwriteConfigFromEnvironment: a set variable replaces the field
OverwriteConfigFromEnvironment(c, env) ==
    [c EXCEPT
        !.Host = IF env.Host # "" THEN env.Host ELSE @,
        !.TokenExp = IF env.TokenExp > 0 THEN env.TokenExp ELSE @,
        !.RefreshExp = IF env.RefreshExp > 0 THEN env.RefreshExp ELSE @,
        !.TTLTicker = IF env.TTLTicker > 0 THEN env.TTLTicker ELSE @]

\* LoadConfigFromDB: the _configs row, then the environment over it
LoadConfigFromDB(n, row, env) ==
    [n EXCEPT !.Config = OverwriteConfigFromEnvironment(row, env)]

\* LoadSettingsFromDB: SelectMany on _settings ended with err.  An error
\* that is not ErrSQLNoRows returns nil, ErrSQLNoRows returns an error;
\* without error every row is filed under its category
LoadSettingsFromDB(n, rows, err) ==
    IF err = "other" THEN [node |-> n, failed |-> FALSE]
    ELSE IF err = "no-rows" THEN [node |-> n, failed |-> TRUE]
    ELSE [node |-> [n EXCEPT !.Settings =
                      [c \in DOMAIN @ |-> [k \in DOMAIN @[c] \cup DOMAIN rows[c] |->
                          IF k \in DOMAIN rows[c] THEN rows[c][k] ELSE @[c][k]]]],
          failed |-> FALSE]

\* the node runs on the built-in defaults, no peers, no environment
Started ==
    /\ Config = [ZeroConfig EXCEPT !.NodeNumber = 1,
                    !.TokenExp = DEFAULT_TOKEN_EXPIRES_MINUTES,
                    !.RefreshExp = DEFAULT_REFRESH_EXPIRES_MINUTES,
                    !.TTLTicker = DEFAULT_TTL_TICKER_MINUTES]
    /\ Settings = NoSettings
    /\ Status = [ZeroStatus EXCEPT !.MaxPool = DEFAULT_MAX_POOL, !.NodeNumber = 1]
    /\ TokenStore = [TokenMap |-> DEFAULT_TOKEN_EXPIRES_MINUTES,
                     RefreshTokenMap |-> DEFAULT_REFRESH_EXPIRES_MINUTES]
    /\ Env = [Host |-> "", TokenExp |-> 0, RefreshExp |-> 0, TTLTicker |-> 0]
    /\ db = [config |-> Config, settings |-> NoSettings, settingsErr |-> "other"]
    /\ startup = "running"
    /\ applied = 1
    /\ InternalConnection = "open"

\* the server starts long after the zero time.Time
Epoch == alertCooldown + 1

\* no alert was raised, no pool exhaustion stamped yet
NoAlerts ==
    /\ now = Epoch
    /\ LastPoolExhaustion = 0
    /\ am = NewAlertManager
    /\ log = << >>
    /\ recent = << >>
    /\ loadChanges = 0

Init ==
    /\ IsPoolEnabled \in BOOLEAN
    /\ MaxPool \in 0..MaxPoolCfg
    /\ DBConnections = EmptyMap
    /\ Metrics = [c \in Counters |-> 0]
    /\ NoRequests
    /\ NoShutdown
    /\ NoAlerts
    /\ Started

(***************************************************************************)
(* HandleConnect (POST /db/connect).                                       *)
(***************************************************************************)
\* userNameExist: the row of _users with its stored password hash, or the
\* zero UserTable when there is no such row
userNameExist(known) ==
    IF known THEN [Password |-> "hash"] ELSE [Password |-> ""]

\* encryption.HashPin of the submitted password: the stored hash when the
\* password is the user's, another digest otherwise
HashPin(pwOK) == IF pwOK THEN "hash" ELSE "other"

\* passwordMatch: hashes the submitted password and compares
passwordMatch(userRow, pwOK) ==
    [hashed |-> TRUE, err |-> userRow.Password # HashPin(pwOK)]

\* HandleConnect up to the password check: the answer of a refused request
\* (status 0: the request goes on), and whether the hash was computed
Authenticate(known, pwOK) ==
    IF ~known
    THEN [status |-> 401, message |-> "Invalid credentials", hashed |-> FALSE]
    ELSE LET match == passwordMatch(userNameExist(known), pwOK) IN
         IF match.err
         THEN [status |-> 401, message |-> "Invalid credentials",
               hashed |-> match.hashed]
         ELSE [status |-> 0, message |-> "", hashed |-> match.hashed]

\* Request decoding, username lookup, password check, NewDatabase.  A body
\* that does not decode or a malformed username is answered before any shared
\* state is read and leaves no trace; such requests are left out.
\* known: the username is in _users; pwOK: the password hashes to the stored
\* hash; dbOK: NewDatabase succeeds.  The password is cleared on the loaded
\* record once it matched, and nowhere else.
ConnectBegin(p, known, pwOK, dbOK) ==
    /\ Idle(p)
    /\ req' = [req EXCEPT ![p] = [kind |-> "connect", known |-> known,
                                  pwOK |-> pwOK, Refresh |-> NoToken]]
    /\ tokmap' = [tokmap EXCEPT ![p] = NoToken]
    /\ connectReq' = [connectReq EXCEPT ![p] = [Password |-> "password"]]
    /\ user' = [user EXCEPT ![p] =
                   IF known /\ pwOK THEN [userNameExist(known) EXCEPT !.Password = ""]
                                    ELSE userNameExist(known)]
    /\ IF Authenticate(known, pwOK).status # 0
       THEN /\ Respond(p, Authenticate(known, pwOK).status, NoToken)
            /\ newDB' = [newDB EXCEPT ![p] = 0]
            /\ UNCHANGED << drivers, Metrics >>
       ELSE IF ~dbOK
       THEN /\ Respond(p, 500, NoToken)
            /\ newDB' = [newDB EXCEPT ![p] = 0]
            /\ Metrics' = RecordAuthentication(Metrics, FALSE)
            /\ UNCHANGED drivers
       ELSE /\ newDB' = [newDB EXCEPT ![p] = NextId]
            /\ drivers' = [k \in DOMAIN drivers \cup {NextId} |->
                              IF k = NextId THEN "open" ELSE drivers[k]]
            /\ pc' = [pc EXCEPT ![p] = "token"]
            /\ resp' = [resp EXCEPT ![p] = NoResp]
            /\ UNCHANGED << Metrics, poolBefore >>
    /\ UNCHANGED << IsPoolEnabled, MaxPool, DBConnections, InternalConnection,
                    TokenMap, RefreshTokenMap, tokens, issued, consumed, cm >>
    /\ UNCHANGED << amVars, cfgVars, dispVars, shutVars >>
    /\ UNCHANGED LastPoolExhaustion

(***************************************************************************)
(* createNewTokenResponse: mints the pair, saves it, counts it.  Called by *)
(* HandleConnect with the authenticated user and by HandleRefresh with the *)
(* user of the old record.                                                 *)
(***************************************************************************)
\* the TokenTable createNewTokenResponse fills in at time at
NewTokenTable(userName, at) ==
    [UserName |-> userName,
     TokenExpiresAt |-> at + DEFAULT_TOKEN_EXPIRES_MINUTES,
     RefreshExpiresAt |-> at + DEFAULT_REFRESH_EXPIRES_MINUTES]

TokenUser(p) ==
    IF req[p].kind = "connect" THEN p ELSE tokens[tokmap[p]].UserName

createNewTokenResponse(p) ==
    /\ pc[p] = "token"
    /\ tokens' = [k \in DOMAIN tokens \cup {newDB[p]} |->
                     IF k = newDB[p] THEN NewTokenTable(TokenUser(p), now)
                                     ELSE tokens[k]]
    /\ SaveToken(newDB[p])
    /\ Metrics' = RecordTokenCreated(Metrics)
    /\ pc' = [pc EXCEPT ![p] = "check"]
    /\ UNCHANGED << IsPoolEnabled, MaxPool, DBConnections, InternalConnection,
                    drivers, req, tokmap, newDB, resp, issued, consumed,
                    poolBefore, cm, connectReq, user >>
    /\ UNCHANGED << amVars, cfgVars, dispVars, shutVars >>
    /\ UNCHANGED LastPoolExhaustion

(***************************************************************************)
(* The admission test of both handlers, and its refusal branch.            *)
(***************************************************************************)
PoolCheck(p) ==
    /\ pc[p] = "check"
    /\ IF IsPoolAvailable
       THEN /\ pc' = [pc EXCEPT ![p] = "put"]
            /\ UNCHANGED << Metrics, resp, poolBefore, LastPoolExhaustion >>
       ELSE IF req[p].kind = "connect"
       THEN /\ Metrics' = RecordAuthentication(RecordPoolExhaustion(Metrics), FALSE)
            /\ LastPoolExhaustion' = now
            /\ Respond(p, 406, NoToken)
       ELSE /\ Metrics' = RecordPoolExhaustion(Metrics)
            /\ LastPoolExhaustion' = now
            /\ Respond(p, 503, NoToken)
    /\ UNCHANGED << IsPoolEnabled, MaxPool, DBConnections, InternalConnection,
                    TokenMap, RefreshTokenMap, tokens, drivers, req, tokmap,
                    newDB, issued, consumed, cm, connectReq, user >>
    /\ UNCHANGED << amVars, cfgVars, dispVars, shutVars >>

\* HandleRefresh leaving the old refresh token in the store
RemoveOldRefreshSkipped(token) == RefreshTokenMap

\* HandleRefresh: TokenStore.RefreshTokenMap.Delete(refreshReq.Refresh)
RemoveOldRefresh(token) == Delete(RefreshTokenMap, token)

(***************************************************************************)
(* The admission itself and the success response of both handlers.         *)
(***************************************************************************)
\* RenameDBConnection's way: a refresh binds the driver of the old token
PooledDriverRenamed(p) ==
    IF req[p].kind = "refresh" THEN tokmap[p] ELSE newDB[p]

\* the driver both handlers put in the pool: the newDB they have just opened
PooledDriver(p) == newDB[p]

PoolPut(p) ==
    /\ pc[p] = "put"
    /\ DBConnections' = Put(DBConnections, RefreshExp, newDB[p], 0, PooledDriver(p))
    /\ IF req[p].kind = "connect"
       THEN /\ Metrics' = RecordAuthentication(RecordConnectionCreated(Metrics), TRUE)
            /\ UNCHANGED << RefreshTokenMap, consumed >>
       ELSE /\ Metrics' = RecordRefreshTokenUsed(RecordConnectionCreated(Metrics))
            /\ RefreshTokenMap' = RemoveOldRefresh(req[p].Refresh)
            /\ consumed' = consumed \cup {req[p].Refresh}
    /\ Respond(p, 200, newDB[p])
    /\ issued' = issued \cup {newDB[p]}
    /\ UNCHANGED << IsPoolEnabled, MaxPool, InternalConnection, TokenMap,
                    tokens, drivers, req, tokmap, newDB, cm, connectReq, user >>
    /\ UNCHANGED << amVars, cfgVars, dispVars, shutVars >>
    /\ UNCHANGED LastPoolExhaustion

(***************************************************************************)
(* HandleRefresh (POST /db/refresh).                                       *)
(***************************************************************************)
\* Request decoding and the refresh-token check.
RefreshBegin(p, token) ==
    /\ Idle(p)
    /\ req' = [req EXCEPT ![p] = [kind |-> "refresh", known |-> FALSE,
                                  pwOK |-> FALSE, Refresh |-> token]]
    /\ newDB' = [newDB EXCEPT ![p] = 0]
    /\ LET r == RefreshTokenExist(token) IN
       IF ~r.ok
       THEN /\ Respond(p, 401, NoToken)
            /\ tokmap' = [tokmap EXCEPT ![p] = NoToken]
       ELSE /\ tokmap' = [tokmap EXCEPT ![p] = r.tok]
            /\ pc' = [pc EXCEPT ![p] = "close"]
            /\ resp' = [resp EXCEPT ![p] = NoResp]
            /\ poolBefore' = [poolBefore EXCEPT ![p] = DOMAIN DBConnections]
    /\ UNCHANGED << IsPoolEnabled, MaxPool, DBConnections, InternalConnection,
                    TokenMap, RefreshTokenMap, tokens, drivers, Metrics,
                    issued, consumed, cm, connectReq, user >>
    /\ UNCHANGED << amVars, cfgVars, dispVars, shutVars >>
    /\ UNCHANGED LastPoolExhaustion

\* The old connection is looked up and Close is called on it, best effort.
\* closeOK: Close returns no error.  A driver is "closed" once Close has been
\* called on it, whatever Close returned.
RefreshClose(p, closeOK) ==
    /\ pc[p] = "close"
    /\ LET old == GetDBConnectionByToken(tokmap[p]) IN
       IF old.ok
       THEN /\ Metrics' = IF closeOK THEN RecordConnectionClosed(Metrics)
                                     ELSE Metrics
            /\ IF old.db = 0
               THEN /\ InternalConnection' = "closed"
                    /\ UNCHANGED drivers
               ELSE /\ drivers' = [drivers EXCEPT ![old.db] = "closed"]
                    /\ UNCHANGED InternalConnection
       ELSE UNCHANGED << Metrics, drivers, InternalConnection >>
    /\ pc' = [pc EXCEPT ![p] = "delete"]
    /\ UNCHANGED << IsPoolEnabled, MaxPool, DBConnections, TokenMap,
                    RefreshTokenMap, tokens, req, tokmap, newDB, resp, issued,
                    consumed, poolBefore, cm, connectReq, user >>
    /\ UNCHANGED << amVars, cfgVars, dispVars, shutVars >>
    /\ UNCHANGED LastPoolExhaustion

\* HandleRefresh leaving the old entry in the pool
RemoveOldConnectionSkipped(token) == DBConnections

\* HandleRefresh: CurrentNode.DBConnections.Delete(tokmap.Token)
RemoveOldConnection(token) == Delete(DBConnections, token)

\* The old pool entry is removed and the new driver opened.
RefreshDelete(p, dbOK) ==
    /\ pc[p] = "delete"
    /\ DBConnections' = RemoveOldConnection(tokmap[p])
    /\ IF ~dbOK
       THEN /\ Respond(p, 500, NoToken)
            /\ UNCHANGED << drivers, newDB >>
       ELSE /\ newDB' = [newDB EXCEPT ![p] = NextId]
            /\ drivers' = [k \in DOMAIN drivers \cup {NextId} |->
                              IF k = NextId THEN "open" ELSE drivers[k]]
            /\ pc' = [pc EXCEPT ![p] = "token"]
            /\ UNCHANGED << resp, poolBefore >>
    /\ UNCHANGED << IsPoolEnabled, MaxPool, InternalConnection, TokenMap,
                    RefreshTokenMap, tokens, Metrics, req, tokmap, issued,
                    consumed, cm, connectReq, user >>
    /\ UNCHANGED << amVars, cfgVars, dispVars, shutVars >>
    /\ UNCHANGED LastPoolExhaustion

(***************************************************************************)
(* One tick elapses; the sweep loop of every TTL map drops what expired.   *)
(***************************************************************************)
Tick ==
    /\ DBConnections' = Sweep(DBConnections)
    /\ TokenMap' = Sweep(TokenMap)
    /\ RefreshTokenMap' = Sweep(RefreshTokenMap)
    /\ UNCHANGED << IsPoolEnabled, MaxPool, InternalConnection, tokens,
                    drivers, Metrics, pc, req, tokmap, newDB, resp, issued,
                    consumed, poolBefore, cm, connectReq, user >>
    /\ UNCHANGED << amVars, cfgVars, dispVars, shutVars >>
    /\ UNCHANGED LastPoolExhaustion

(***************************************************************************)
(* ConnectionManager.cleanupExpiredConnections, run on every cleanup tick: *)
(* it reads the pool size twice and counts the difference.                 *)
(***************************************************************************)
CleanupBegin ==
    /\ cm.pc = "wait"
    /\ cm' = [pc |-> "sized", sizeBefore |-> Len(DBConnections)]
    /\ UNCHANGED << IsPoolEnabled, MaxPool, DBConnections, InternalConnection,
                    TokenMap, RefreshTokenMap, tokens, drivers, Metrics, pc,
                    req, tokmap, newDB, resp, issued, consumed, poolBefore,
                    connectReq, user >>
    /\ UNCHANGED << amVars, cfgVars, dispVars, shutVars >>
    /\ UNCHANGED LastPoolExhaustion

CleanupEnd ==
    /\ cm.pc = "sized"
    /\ LET sizeAfter == Len(DBConnections) IN
       IF cm.sizeBefore > sizeAfter
       THEN Metrics' = Add(Add(Metrics, "TokensExpired", cm.sizeBefore - sizeAfter),
                           "ConnectionsClosed", cm.sizeBefore - sizeAfter)
       ELSE UNCHANGED Metrics
    /\ cm' = [pc |-> "wait", sizeBefore |-> 0]
    /\ UNCHANGED << IsPoolEnabled, MaxPool, DBConnections, InternalConnection,
                    TokenMap, RefreshTokenMap, tokens, drivers, pc, req,
                    tokmap, newDB, resp, issued, consumed, poolBefore,
                    connectReq, user >>
    /\ UNCHANGED << amVars, cfgVars, dispVars, shutVars >>
    /\ UNCHANGED LastPoolExhaustion

Next ==
    \/ \E p \in Procs, known \in BOOLEAN, pwOK \in BOOLEAN, dbOK \in BOOLEAN :
          ConnectBegin(p, known, pwOK, dbOK)
    \/ \E p \in Procs : createNewTokenResponse(p)
    \/ \E p \in Procs : PoolCheck(p)
    \/ \E p \in Procs : PoolPut(p)
    \/ \E p \in Procs, token \in issued \cup {NoToken} : RefreshBegin(p, token)
    \/ \E p \in Procs, closeOK \in BOOLEAN : RefreshClose(p, closeOK)
    \/ \E p \in Procs, dbOK \in BOOLEAN : RefreshDelete(p, dbOK)
    \/ Tick
    \/ CleanupBegin
    \/ CleanupEnd

Spec == Init /\ [][Next]_vars

\* the same node when a refresh request may carry any refresh token that is
\* live in the store, whether or not a response has delivered it
AnyTokenNext ==
    \/ Next
    \/ \E p \in Procs, token \in DOMAIN RefreshTokenMap : RefreshBegin(p, token)

AnyTokenSpec == Init /\ [][AnyTokenNext]_vars


(***************************************************************************)
(* The alert manager at work: every 30 seconds the ticker fires and        *)
(* checkSystemHealth runs against the node as the traffic left it.         *)
(***************************************************************************)
\* ticks of the alert manager over a run
MaxTicks == 12
\* pool capacity of the monitored node
AlertPool == 4
\* changes of the pool load over a run
MaxLoadChanges == 1
\* pool exhaustions over a run
MaxExhaustions == 1

sessionVars == << IsPoolEnabled, MaxPool, InternalConnection, TokenMap,
                  RefreshTokenMap, tokens, drivers, pc, req, tokmap, newDB,
                  resp, issued, consumed, poolBefore, cm, connectReq, user,
                  cfgVars >>

\* a pool of n connections
PoolOf(n) == [k \in 1..n |-> [ttl |-> RefreshExp, val |-> k]]

\* counters as some traffic left them: [attempts, failures] pairs
Samples == { <<0, 0>>, <<9, 9>>, <<10, 5>>, <<10, 6>>, <<10, 2>>, <<10, 3>> }

\* every admitted connect counted a connection and a token pair; the failed
\* ones failed to open their driver
MetricsOf(auth, query) ==
    [c \in Counters |->
        IF c = "AuthenticationAttempts" THEN auth[1]
        ELSE IF c = "AuthenticationFailures" THEN auth[2]
        ELSE IF c = "QueriesExecuted" THEN query[1]
        ELSE IF c = "QueriesFailed" THEN query[2]
        ELSE IF c \in {"ConnectionsCreated", "TokensCreated"} THEN auth[1] - auth[2]
        ELSE 0]

\* the node after some traffic: nobody is admitted to a pool of capacity 0,
\* only admitted clients hold connections and run queries
AlertInit ==
    /\ IsPoolEnabled = TRUE
    /\ MaxPool \in {0, AlertPool}
    /\ \E auth \in Samples, query \in Samples :
          /\ MaxPool = 0 => auth[1] = auth[2]
          /\ auth[1] = auth[2] => query[1] = 0
          /\ Metrics = MetricsOf(auth, query)
    /\ \E n \in 0..AlertPool :
          /\ n <= Metrics.ConnectionsCreated
          /\ DBConnections = PoolOf(n)
    /\ NoRequests
    /\ NoShutdown
    /\ NoAlerts
    /\ Started

\* the ticker fires: am.checkSystemHealth()
AlertTick ==
    /\ now < Epoch + MaxTicks
    /\ now' = now + 1
    /\ am' = checkSystemHealth(am)
    /\ UNCHANGED << sessionVars, dispVars, shutVars, DBConnections, Metrics, LastPoolExhaustion,
                    log, recent, loadChanges >>

\* connections come and go
PoolLoad(n) ==
    /\ loadChanges < MaxLoadChanges
    /\ n # Len(DBConnections)
    /\ n <= Metrics.ConnectionsCreated
    /\ loadChanges' = loadChanges + 1
    /\ DBConnections' = PoolOf(n)
    /\ UNCHANGED << sessionVars, dispVars, shutVars, Metrics, LastPoolExhaustion, now, am, log,
                    recent >>

\* a request is refused by the pool: Metrics.RecordPoolExhaustion()
PoolExhausted ==
    /\ Metrics.PoolExhaustionCount < MaxExhaustions
    /\ Metrics' = RecordPoolExhaustion(Metrics)
    /\ LastPoolExhaustion' = now
    /\ UNCHANGED << sessionVars, dispVars, shutVars, DBConnections, now, am, log, recent,
                    loadChanges >>

AlertNext ==
    \/ AlertTick
    \/ \E n \in 0..AlertPool : PoolLoad(n)
    \/ PoolExhausted

AlertSpec == AlertInit /\ [][AlertNext]_vars

(***************************************************************************)
(* The alert history under CreateAlert, ClearAlerts and GetRecentAlerts.   *)
(***************************************************************************)
\* alerts created between two clears
MaxCreated == 102

HistoryInit ==
    /\ IsPoolEnabled = TRUE
    /\ MaxPool = AlertPool
    /\ DBConnections = EmptyMap
    /\ Metrics = [c \in Counters |-> 0]
    /\ NoRequests
    /\ NoShutdown
    /\ NoAlerts
    /\ Started

HistoryCreate ==
    /\ Size(log) < MaxCreated
    /\ now' = now
    /\ am' = CreateAlert(am, "INFO", "alert", Size(log) + 1)
    /\ log' = AppendTo(log, Alert("INFO", "alert", Size(log) + 1))
    /\ UNCHANGED << sessionVars, dispVars, shutVars, DBConnections, Metrics, LastPoolExhaustion,
                    recent, loadChanges >>

HistoryClear ==
    /\ am' = ClearAlerts(am)
    /\ log' = << >>
    /\ UNCHANGED << sessionVars, dispVars, shutVars, DBConnections, Metrics, LastPoolExhaustion,
                    now, recent, loadChanges >>

HistoryRecent(limit) ==
    /\ recent' = GetRecentAlerts(am, limit)
    /\ UNCHANGED << sessionVars, dispVars, shutVars, DBConnections, Metrics, LastPoolExhaustion,
                    now, am, log, loadChanges >>

HistoryNext ==
    \/ HistoryCreate
    \/ HistoryClear
    \/ \E limit \in {0, 1, maxAlerts} : HistoryRecent(limit)

HistorySpec == HistoryInit /\ [][HistoryNext]_vars

(***************************************************************************)
(* The start of the node: ConnectInternal resolves the configuration,      *)
(* CreateServer builds the token store from it; ApplyAllConfig may be      *)
(* called again on the running node.                                       *)
(***************************************************************************)
\* calls of ApplyAllConfig over a run
MaxApplications == 3
\* node rows of the cluster in the _settings table
MaxNodes == 3

\* every map from some of the keys to the values
Rows(keys, values) == UNION { [ks -> values] : ks \in SUBSET keys }

\* the _settings tables the node may find; a node row
\* "nodeNumber|url|ip|mode" is kept by its node number
SettingRows ==
    { [c \in DOMAIN NoSettings |->
          IF c = SETTING_CATEGORY_TOKEN THEN t
          ELSE IF c = SETTING_CATEGORY_CONNECTION THEN mp @@ po
          ELSE [k \in nodes |-> k]] :
      t \in Rows({SETTING_KEY_TOKEN_EXP, SETTING_KEY_REFRESH_EXP}, {20, 200}),
      mp \in Rows({SETTING_KEY_MAX_POOL}, {0, 2}),
      po \in Rows({SETTING_KEY_ENABLE_POOL}, {0, 1}),
      nodes \in SUBSET (1..MaxNodes) }

\* the process before ConnectInternal: CurrentNode holds zero values
ConfigInit ==
    /\ IsPoolEnabled = FALSE
    /\ MaxPool = 0
    /\ DBConnections = EmptyMap
    /\ InternalConnection = "closed"
    /\ Metrics = [c \in Counters |-> 0]
    /\ NoRequests
    /\ NoShutdown
    /\ NoAlerts
    /\ Config = ZeroConfig
    /\ Settings = NoSettings
    /\ Status = ZeroStatus
    /\ TokenStore = [TokenMap |-> 0, RefreshTokenMap |-> 0]
    /\ Env \in [Host : {"", "env.host"}, TokenExp : {0, Minutes(60)},
                RefreshExp : {0, Minutes(120)}, TTLTicker : {0, Minutes(1)}]
    /\ \E rows \in SettingRows :
          \E err \in {IF rows = NoSettings THEN "no-rows" ELSE "nil", "other"} :
             db = [config |-> [Host |-> "db.host", NodeNumber |-> 1,
                               TokenExp |-> Minutes(30),
                               RefreshExp |-> Minutes(90),
                               TTLTicker |-> Minutes(3)],
                   settings |-> rows, settingsErr |-> err]
    /\ startup = "boot"
    /\ applied = 0

\* everything but the configuration of the node
runVars == << DBConnections, tokens, drivers, Metrics, pc, req, tokmap, newDB,
              resp, issued, consumed, poolBefore, cm, connectReq, user,
              LastPoolExhaustion, amVars, dispVars, shutVars >>

\* ConnectInternal: NewDatabase, LoadConfigFromDB, LoadSettingsFromDB,
\* GetStatusInternal, ApplyAllConfig, GetStatusFromSettings, the peer rule
ConnectInternal(dbOK) ==
    /\ startup = "boot"
    /\ IF ~dbOK
       THEN /\ startup' = "failed"
            /\ UNCHANGED << IsPoolEnabled, MaxPool, InternalConnection, Config,
                            Settings, Status, applied >>
       ELSE LET n1 == LoadConfigFromDB(Node, db.config, Env)
                l2 == LoadSettingsFromDB([n1 EXCEPT !.Settings = NoSettings],
                                         db.settings, db.settingsErr)
                n3 == GetStatusInternal(l2.node)
                n4 == ApplyAllConfig(n3)
                n5 == GetStatusFromSettings(n4)
                peers == Cardinality(n5.Status.Peers)
            IN  IF l2.failed
                THEN /\ InternalConnection' = "open"
                     /\ Config' = l2.node.Config
                     /\ Settings' = l2.node.Settings
                     /\ startup' = "failed"
                     /\ UNCHANGED << IsPoolEnabled, MaxPool, Status, applied >>
                ELSE /\ InternalConnection' = "open"
                     /\ Config' = n5.Config
                     /\ Settings' = n5.Settings
                     /\ Status' = n5.Status
                     /\ IsPoolEnabled' = n5.IsPoolEnabled
                     /\ MaxPool' = IF peers > 0 THEN n5.Status.MaxPool * peers
                                                ELSE n5.MaxPool
                     /\ applied' = applied + 1
                     /\ startup' = "connected"
    /\ UNCHANGED << runVars, TokenMap, RefreshTokenMap, TokenStore, Env, db >>

\* CreateServer(CurrentNode): InitTokenMaps with the TTLs of the node
CreateServer ==
    /\ startup = "connected"
    /\ TokenStore' = [TokenMap |-> Config.TokenExp,
                      RefreshTokenMap |-> Config.RefreshExp]
    /\ TokenMap' = EmptyMap
    /\ RefreshTokenMap' = EmptyMap
    /\ startup' = "running"
    /\ UNCHANGED << runVars, IsPoolEnabled, MaxPool, InternalConnection, Config,
                    Settings, Status, Env, db, applied >>

\* CurrentNode.ApplyAllConfig() on the running node
ApplyAgain ==
    /\ startup = "running"
    /\ applied < MaxApplications
    /\ LET n == ApplyAllConfig(Node)
       IN  /\ Config' = n.Config
           /\ Settings' = n.Settings
           /\ Status' = n.Status
           /\ IsPoolEnabled' = n.IsPoolEnabled
           /\ MaxPool' = n.MaxPool
    /\ applied' = applied + 1
    /\ UNCHANGED << runVars, TokenMap, RefreshTokenMap, InternalConnection,
                    TokenStore, Env, db, startup >>

\* a first client is given a token pair by the running node:
\* createNewTokenResponse, with the token maps InitTokenMaps has made
IssueToken ==
    /\ startup = "running"
    /\ DOMAIN tokens = {}
    /\ tokens' = [k \in {NextId} |-> NewTokenTable(NextId, now)]
    /\ TokenMap' = Put(TokenMap, TokenStore.TokenMap, NextId, 0, NextId)
    /\ RefreshTokenMap' = Put(RefreshTokenMap, TokenStore.RefreshTokenMap,
                              NextId, 0, NextId)
    /\ Metrics' = RecordTokenCreated(Metrics)
    /\ UNCHANGED << DBConnections, drivers, pc, req, tokmap, newDB, resp,
                    issued, consumed, poolBefore, cm, connectReq, user,
                    LastPoolExhaustion, amVars, dispVars, shutVars >>
    /\ UNCHANGED << cfgVars, IsPoolEnabled, MaxPool, InternalConnection >>

ConfigNext ==
    \/ \E dbOK \in BOOLEAN : ConnectInternal(dbOK)
    \/ CreateServer
    \/ ApplyAgain
    \/ IssueToken

ConfigSpec == ConfigInit /\ [][ConfigNext]_vars

(***************************************************************************)
(* The dispatcher: HandleInsert, HandleQuery, HandleSQLExecution and       *)
(* HandleSQLQuery. A handler resolves the driver of the token, invokes the *)
(* driver operation its routing selects and shapes the response.           *)
(***************************************************************************)
\* one invocation of a driver operation
Call(op, userDB, arg) == [op |-> op, db |-> userDB, arg |-> arg]

\* what the handler did: the operations it invoked and what it answered
Reply(status, data, invoked) == [status |-> status, data |-> data, calls |-> invoked]

\* state.SetError(message, err, status)
SetError(message, status, invoked) == Reply(status, [Message |-> message], invoked)

\* what a driver operation returns: rows and err ("nil", "no-rows", "other")
DriverResults == [err : {"nil", "no-rows", "other"}, rows : {<< >>, <<"r1", "r2">>}]

\* the one record a single-row operation returns
RecordOf(result) == IF Size(result.rows) > 0 THEN result.rows[1] ELSE "r0"

\* HandleInsert, the routing mutated: same_table is not looked at
InsertRouteIgnoresSameTable(insertReq) ==
    IF Size(insertReq.Records) = 1 THEN "InsertOneDBRecord"
    ELSE "InsertManyDBRecords"

\* HandleInsert: the operation the request is routed to
InsertRoute(insertReq) ==
    IF Size(insertReq.Records) = 1 THEN "InsertOneDBRecord"
    ELSE IF insertReq.SameTable THEN "InsertManyDBRecordsSameTable"
    ELSE "InsertManyDBRecords"

\* HandleInsert
HandleInsert(token, bindOK, insertReq, result) ==
    IF token = NoToken THEN SetError("Cannot retrieve token from context", 401, << >>)
    ELSE IF ~bindOK THEN SetError("Invalid request format", 400, << >>)
    ELSE LET numRecs == Size(insertReq.Records)
             userDB == GetDBConnectionByToken(token)
             op == InsertRoute(insertReq)
         IN  IF numRecs = 0 THEN SetError("No records provided", 400, << >>)
             ELSE IF ~userDB.ok THEN SetError("Cannot get DB connection", 500, << >>)
             ELSE IF op = "InsertOneDBRecord"
             THEN LET c == << Call(op, userDB.db, insertReq.Records[1]) >>
                  IN  IF result.err # "nil"
                      THEN SetError("Failed to insert record", 500, c)
                      ELSE Reply(200, [Results |-> << result.rows >>,
                                       RowsAffected |-> numRecs], c)
             ELSE LET c == << Call(op, userDB.db, insertReq.Records) >>
                  IN  IF result.err # "nil"
                      THEN SetError(IF op = "InsertManyDBRecordsSameTable"
                                    THEN "Failed to insert multiple records of same table"
                                    ELSE "Failed to insert multiple records", 500, c)
                      ELSE Reply(200, [Results |-> result.rows,
                                       RowsAffected |->
                                           IF op = "InsertManyDBRecordsSameTable"
                                           THEN numRecs ELSE Size(result.rows)], c)

\* a table name by what the validator looks at: its length, the class of
\* its first character, the classes of the characters after it
TableName(len, first, rest) == [len |-> len, first |-> first, rest |-> rest]

MaxTableNameLength == 64

\* tableNameRegex ^[a-zA-Z_][a-zA-Z0-9_]*$
tableNameRegex(name) ==
    /\ name.len > 0
    /\ name.first \in {"letter", "underscore"}
    /\ name.rest \subseteq {"letter", "digit", "underscore"}

\* ValidateTableName(name, allowInternal): TRUE for a nil error
ValidateTableName(name, allowInternal) ==
    IF name.len = 0 THEN FALSE
    ELSE IF name.len > MaxTableNameLength THEN FALSE
    ELSE IF ~tableNameRegex(name) THEN FALSE
    ELSE IF ~allowInternal /\ name.first = "underscore" THEN FALSE
    ELSE TRUE

\* a nil *orm.Condition
NilCondition ==
    [IsNil |-> TRUE, Field |-> "", Operator |-> "", Value |-> 0, Nested |-> << >>,
     OrderBy |-> << >>, GroupBy |-> << >>, Limit |-> 0, Offset |-> 0]

\* isEmptyCondition
isEmptyCondition(c) ==
    /\ c.Field = "" /\ Size(c.Nested) = 0
    /\ Size(c.OrderBy) = 0 /\ Size(c.GroupBy) = 0
    /\ c.Limit = 0 /\ c.Offset = 0

\* HandleQuery, the ending mutated: no-rows is raised like any other error
QueryOutcomeNoRowsRaised(c, result, records) ==
    IF result.err # "nil"
    THEN SetError("Failed to execute query", 500, c)
    ELSE Reply(200, [Records |-> records, Count |-> Size(records)], c)

\* the four row-returning branches of HandleQuery share this ending
QueryOutcome(c, result, records) ==
    IF result.err # "nil"
    THEN IF result.err = "no-rows"
         THEN Reply(200, [Records |-> << >>, Count |-> 0], c)
         ELSE SetError("Failed to execute query", 500, c)
    ELSE Reply(200, [Records |-> records, Count |-> Size(records)], c)

\* HandleQuery
HandleQuery(token, bindOK, queryReq, result) ==
    IF token = NoToken THEN SetError("Cannot retrieve token from context", 401, << >>)
    ELSE IF ~bindOK THEN SetError("Invalid request format", 400, << >>)
    ELSE IF queryReq.Table.len = 0 THEN SetError("Table name is required", 400, << >>)
    ELSE IF ~ValidateTableName(queryReq.Table, FALSE)
    THEN SetError("Invalid table name", 400, << >>)
    ELSE LET userDB == GetDBConnectionByToken(token)
             hasCondition == ~queryReq.Condition.IsNil
                             /\ ~isEmptyCondition(queryReq.Condition)
         IN  IF ~userDB.ok THEN SetError("Cannot get DB connection", 500, << >>)
             ELSE IF queryReq.SingleRow
             THEN IF hasCondition
                  THEN QueryOutcome(
                           << Call("SelectOneWithCondition", userDB.db,
                                   << queryReq.Table, queryReq.Condition >>) >>,
                           result, << RecordOf(result) >>)
                  ELSE QueryOutcome(
                           << Call("SelectOne", userDB.db, << queryReq.Table >>) >>,
                           result, << RecordOf(result) >>)
             ELSE IF hasCondition
                  THEN QueryOutcome(
                           << Call("SelectManyWithCondition", userDB.db,
                                   << queryReq.Table, queryReq.Condition >>) >>,
                           result, result.rows)
                  ELSE QueryOutcome(
                           << Call("SelectMany", userDB.db, << queryReq.Table >>) >>,
                           result, result.rows)

\* the choice between the two lists mutated: raw statements are taken only
\* when there is no parameterised one
UseStatementsUnlessParamSQL(sqlReq) ==
    Size(sqlReq.Statements) > 0 /\ Size(sqlReq.ParamSQL) = 0

\* HandleSQLExecution, HandleSQLQuery: len(Statements) > 0 takes the raw list
UseStatements(sqlReq) == Size(sqlReq.Statements) > 0

\* the effect-producing branches of HandleSQLExecution share this ending
ExecOutcome(c, result, results) ==
    IF result.err # "nil"
    THEN SetError("Failed to execute SQL statement", 500, c)
    ELSE Reply(200, [Results |-> results, RowsAffected |-> Size(result.rows)], c)

\* HandleSQLExecution
HandleSQLExecution(token, bindOK, sqlReq, result) ==
    IF token = NoToken THEN SetError("Cannot retrieve token from context", 401, << >>)
    ELSE IF ~bindOK THEN SetError("Invalid request format", 400, << >>)
    ELSE IF Size(sqlReq.Statements) = 0 /\ Size(sqlReq.ParamSQL) = 0
    THEN SetError("No SQL statements provided", 400, << >>)
    ELSE LET userDB == GetDBConnectionByToken(token)
         IN  IF ~userDB.ok THEN SetError("Cannot get DB connection", 500, << >>)
             ELSE IF UseStatements(sqlReq)
             THEN IF Size(sqlReq.Statements) = 1
                  THEN ExecOutcome(<< Call("ExecOneSQL", userDB.db,
                                           sqlReq.Statements[1]) >>,
                                   result, << result.rows >>)
                  ELSE ExecOutcome(<< Call("ExecManySQL", userDB.db,
                                           sqlReq.Statements) >>,
                                   result, result.rows)
             ELSE IF Size(sqlReq.ParamSQL) > 0
             THEN IF Size(sqlReq.ParamSQL) = 1
                  THEN ExecOutcome(<< Call("ExecOneSQLParameterized", userDB.db,
                                           sqlReq.ParamSQL[1]) >>,
                                   result, << result.rows >>)
                  ELSE ExecOutcome(<< Call("ExecManySQLParameterized", userDB.db,
                                           sqlReq.ParamSQL) >>,
                                   result, result.rows)
             ELSE Reply(200, [Results |-> << >>, RowsAffected |-> 0], << >>)

\* the row-returning branches of HandleSQLQuery share this ending: one
\* QueryResponse per result set
SQLQueryOutcome(c, result, sets) ==
    IF result.err # "nil"
    THEN IF result.err = "no-rows"
         THEN Reply(200, [Responses |-> << >>], c)
         ELSE SetError("Failed to execute query", 500, c)
    ELSE Reply(200, [Responses |-> [i \in DOMAIN sets |->
                        [Records |-> sets[i], Count |-> Size(sets[i])]]], c)

\* the fan-out of HandleSQLQuery over one of the two lists
SQLQueryFanOut(userDB, list, SingleRow, ops, result) ==
    IF Size(list) = 1
    THEN IF SingleRow
         THEN SQLQueryOutcome(<< Call(ops[1], userDB.db, list[1]) >>,
                              result, << << RecordOf(result) >> >>)
         ELSE SQLQueryOutcome(<< Call(ops[2], userDB.db, list[1]) >>,
                              result, << result.rows >>)
    ELSE SQLQueryOutcome(<< Call(ops[3], userDB.db, list) >>,
                         result, [i \in DOMAIN list |-> result.rows])

\* HandleSQLQuery
HandleSQLQuery(token, bindOK, queryReqSQL, result) ==
    IF token = NoToken THEN SetError("Cannot retrieve token from context", 401, << >>)
    ELSE IF ~bindOK THEN SetError("Invalid request format", 400, << >>)
    ELSE IF Size(queryReqSQL.Statements) = 0 /\ Size(queryReqSQL.ParamSQL) = 0
    THEN SetError("No SQL statements provided", 400, << >>)
    ELSE LET userDB == GetDBConnectionByToken(token)
         IN  IF ~userDB.ok THEN SetError("Cannot get DB connection", 500, << >>)
             ELSE IF UseStatements(queryReqSQL)
             THEN SQLQueryFanOut(userDB, queryReqSQL.Statements,
                                 queryReqSQL.SingleRow,
                                 << "SelectOnlyOneSQL", "SelectOneSQL",
                                    "SelectManySQL" >>, result)
             ELSE IF Size(queryReqSQL.ParamSQL) > 0
             THEN SQLQueryFanOut(userDB, queryReqSQL.ParamSQL,
                                 queryReqSQL.SingleRow,
                                 << "SelectOnlyOneSQLParameterized",
                                    "SelectOneSQLParameterized",
                                    "SelectManySQLParameterized" >>, result)
             ELSE Reply(200, [Responses |-> << >>], << >>)

(***************************************************************************)
(* The dispatcher at work on a node with some sessions.                    *)
(***************************************************************************)
\* sessions of the node the requests are sent to
Sessions == 3
\* sessions that hold a pool entry
Pooled == 2

\* the token a request carries: none, one of a pooled session, one of a
\* session without a pool entry
RequestTokens == {NoToken} \cup (1..Sessions)

InsertRequests ==
    [Records : {<< >>, <<"a">>, <<"a", "b">>, <<"a", "b", "c">>},
     SameTable : BOOLEAN]

\* "", "orders", "_users", "9lives", "or-ders", a name of 64 characters, a
\* name of 65 characters
TableNames ==
    { TableName(0, "letter", {}),
      TableName(6, "letter", {"letter"}),
      TableName(6, "underscore", {"letter"}),
      TableName(6, "digit", {"letter"}),
      TableName(7, "letter", {"letter", "other"}),
      TableName(MaxTableNameLength, "letter", {"letter", "digit", "underscore"}),
      TableName(MaxTableNameLength + 1, "letter", {"letter"}) }

\* the zero-valued filter
EmptyCondition == [NilCondition EXCEPT !.IsNil = FALSE]

\* no filter, the zero-valued filter, every filter with one field set, a leaf
Conditions ==
    { NilCondition, EmptyCondition,
      [EmptyCondition EXCEPT !.Field = "id"],
      [EmptyCondition EXCEPT !.Operator = "="],
      [EmptyCondition EXCEPT !.Value = 42],
      [EmptyCondition EXCEPT !.Nested = << "c" >>],
      [EmptyCondition EXCEPT !.OrderBy = << "id" >>],
      [EmptyCondition EXCEPT !.GroupBy = << "id" >>],
      [EmptyCondition EXCEPT !.Limit = 10],
      [EmptyCondition EXCEPT !.Offset = 5],
      [EmptyCondition EXCEPT !.Field = "id", !.Operator = "=", !.Value = 42] }

QueryRequests == [Table : TableNames, Condition : Conditions, SingleRow : BOOLEAN]

SQLRequests ==
    [Statements : {<< >>, <<"s1">>, <<"s1", "s2">>},
     ParamSQL : {<< >>, <<"p1">>, <<"p1", "p2">>},
     SingleRow : BOOLEAN]

\* a node on which Sessions clients authenticated and Pooled of them were
\* admitted to the pool
DispatchInit ==
    /\ IsPoolEnabled \in BOOLEAN
    /\ MaxPool = Pooled
    /\ DBConnections = PoolOf(IF IsPoolEnabled THEN Pooled ELSE 0)
    /\ InternalConnection = "open"
    /\ TokenMap = [k \in 1..Sessions |-> [ttl |-> TokenExp, val |-> k]]
    /\ RefreshTokenMap = [k \in 1..Sessions |-> [ttl |-> RefreshExp, val |-> k]]
    /\ tokens = [k \in 1..Sessions |-> [UserName |-> k]]
    /\ drivers = [k \in 1..Sessions |-> "open"]
    /\ Metrics = MetricsOf(<< Sessions, 0 >>, << 0, 0 >>)
    /\ pc = [p \in Procs |-> "idle"]
    /\ req = [p \in Procs |-> NoReq]
    /\ tokmap = [p \in Procs |-> NoToken]
    /\ newDB = [p \in Procs |-> 0]
    /\ resp = [p \in Procs |-> NoResp]
    /\ issued = 1..Sessions
    /\ consumed = {}
    /\ poolBefore = [p \in Procs |-> {}]
    /\ cm = [pc |-> "wait", sizeBefore |-> 0]
    /\ connectReq = [p \in Procs |-> [Password |-> ""]]
    /\ user = [p \in Procs |-> [Password |-> ""]]
    /\ request = NoRequest
    /\ calls = << >>
    /\ response = NoResponse
    /\ NoShutdown
    /\ NoAlerts
    /\ Started

\* a handler runs on the request that arrives: what it invoked and what it
\* answered is kept
Serve(handler, token, bindOK, body, result, reply) ==
    /\ request = NoRequest
    /\ request' = [handler |-> handler, token |-> token, bindOK |-> bindOK,
                   body |-> body, result |-> result]
    /\ calls' = reply.calls
    /\ response' = [status |-> reply.status, data |-> reply.data]
    /\ UNCHANGED << sessionVars, DBConnections, Metrics, LastPoolExhaustion,
                    amVars, shutVars >>

ServeInsert ==
    \E token \in RequestTokens, bindOK \in BOOLEAN, insertReq \in InsertRequests,
       result \in DriverResults :
        Serve("HandleInsert", token, bindOK, insertReq, result,
              HandleInsert(token, bindOK, insertReq, result))

ServeQuery ==
    \E token \in RequestTokens, bindOK \in BOOLEAN, queryReq \in QueryRequests,
       result \in DriverResults :
        Serve("HandleQuery", token, bindOK, queryReq, result,
              HandleQuery(token, bindOK, queryReq, result))

ServeSQLExecution ==
    \E token \in RequestTokens, bindOK \in BOOLEAN, sqlReq \in SQLRequests,
       result \in DriverResults :
        Serve("HandleSQLExecution", token, bindOK, sqlReq, result,
              HandleSQLExecution(token, bindOK, sqlReq, result))

ServeSQLQuery ==
    \E token \in RequestTokens, bindOK \in BOOLEAN, queryReqSQL \in SQLRequests,
       result \in DriverResults :
        Serve("HandleSQLQuery", token, bindOK, queryReqSQL, result,
              HandleSQLQuery(token, bindOK, queryReqSQL, result))

DispatchNext ==
    \/ ServeInsert
    \/ ServeQuery
    \/ ServeSQLExecution
    \/ ServeSQLQuery

DispatchSpec == DispatchInit /\ [][DispatchNext]_vars

(***************************************************************************)
(* A supervisor.  AlertManager and ConnectionManager share one shape:      *)
(* Start launches a goroutine that selects on the context, the stop        *)
(* channel and the ticker; Stop closes the stop channel and waits for the  *)
(* goroutine.  mu holds 0 when free, a Stop caller's number, or LoopHolds. *)
(***************************************************************************)
LoopHolds == StopCallers + 1

\* the part of checkSystemHealth / cleanupExpiredConnections that takes the
\* supervisor's own mutex: CreateAlert locks am.mu, the cleanup takes none
LocksInCheck == sup.kind = "alert"

\* Start, up to the Unlock: a running supervisor is left alone.  Start is
\* called again only when the goroutine of the previous call has ended
StartLock ==
    /\ sup.start \in {"idle", "returned"}
    /\ sup.loop \in {"none", "done"}
    /\ sup.starts < MaxStarts
    /\ sup.mu = 0
    /\ sup' = IF sup.running
                   THEN [sup EXCEPT !.start = "returned", !.starts = @ + 1]
                   ELSE [sup EXCEPT !.running = TRUE, !.start = "unlocked",
                                    !.starts = @ + 1]
    /\ UNCHANGED << sessionVars, DBConnections, Metrics, LastPoolExhaustion,
                    amVars, dispVars, hook >>

\* Start, after the Unlock: NewTicker, wg.Add(1), go func
StartLaunch ==
    /\ sup.start = "unlocked"
    /\ sup' = [sup EXCEPT !.ticker = "running", !.wg = @ + 1,
                           !.loop = "select", !.start = "returned"]
    /\ UNCHANGED << sessionVars, DBConnections, Metrics, LastPoolExhaustion,
                    amVars, dispVars, hook >>

\* the ticker puts a tick in its channel; a stopped ticker sends no more,
\* a tick already sent stays in the channel
TickFire ==
    /\ sup.ticker = "running"
    /\ ~sup.tick
    /\ sup' = [sup EXCEPT !.tick = TRUE]
    /\ UNCHANGED << sessionVars, DBConnections, Metrics, LastPoolExhaustion,
                    amVars, dispVars, hook >>

\* the context of Start is cancelled
CancelCtx ==
    /\ sup.ctx = "live"
    /\ sup' = [sup EXCEPT !.ctx = "cancelled"]
    /\ UNCHANGED << sessionVars, DBConnections, Metrics, LastPoolExhaustion,
                    amVars, dispVars, hook >>

\* case <-ticker.C: the loop leaves the select for its periodic check
LoopTick ==
    /\ sup.loop = "select"
    /\ sup.tick
    /\ sup' = [sup EXCEPT !.tick = FALSE, !.loop = "check"]
    /\ UNCHANGED << sessionVars, DBConnections, Metrics, LastPoolExhaustion,
                    amVars, dispVars, hook >>

\* case <-ctx.Done(), case <-stopChan: return, and the deferred wg.Done
LoopExit ==
    /\ sup.loop = "select"
    /\ sup.ctx = "cancelled" \/ sup.stopChan = "closed"
    /\ sup' = [sup EXCEPT !.loop = "done", !.wg = @ - 1]
    /\ UNCHANGED << sessionVars, DBConnections, Metrics, LastPoolExhaustion,
                    amVars, dispVars, hook >>

\* the periodic check: a check of the alert supervisor that finds a
\* threshold crossed goes on to CreateAlert
LoopCheck ==
    /\ sup.loop = "check"
    /\ \E raise \in BOOLEAN :
          sup' = [sup EXCEPT !.loop =
                     IF LocksInCheck /\ raise THEN "lock" ELSE "select"]
    /\ UNCHANGED << sessionVars, DBConnections, Metrics, LastPoolExhaustion,
                    amVars, dispVars, hook >>

\* CreateAlert: am.mu.Lock()
LoopLock ==
    /\ sup.loop = "lock"
    /\ sup.mu = 0
    /\ sup' = [sup EXCEPT !.mu = LoopHolds, !.loop = "append"]
    /\ UNCHANGED << sessionVars, DBConnections, Metrics, LastPoolExhaustion,
                    amVars, dispVars, hook >>

\* CreateAlert: the append, am.mu.Unlock(), and back to the select
LoopUnlock ==
    /\ sup.loop = "append"
    /\ sup' = [sup EXCEPT !.mu = 0, !.loop = "select"]
    /\ UNCHANGED << sessionVars, DBConnections, Metrics, LastPoolExhaustion,
                    amVars, dispVars, hook >>

\* a goroutine calls Stop
StopCall(c) ==
    /\ sup.stop[c] = "idle"
    /\ sup' = [sup EXCEPT !.stop[c] = "lock"]
    /\ UNCHANGED << sessionVars, DBConnections, Metrics, LastPoolExhaustion,
                    amVars, dispVars, hook >>

\* Stop: mu.Lock(); a stopped supervisor is left alone (the deferred Unlock
\* runs); otherwise ticker.Stop(), close(stopChan), and on to wg.Wait()
\* with the mutex held.  The channel is the one the constructor made: closing
\* it a second time panics (the deferred Unlock runs)
StopLock(c) ==
    /\ sup.stop[c] = "lock"
    /\ sup.mu = 0
    /\ sup' = IF ~sup.running
                   THEN [sup EXCEPT !.stop[c] = "returned"]
                   ELSE IF sup.stopChan = "closed"
                   THEN [sup EXCEPT !.ticker = IF @ = "nil" THEN "nil" ELSE "stopped",
                                    !.stop[c] = "panic"]
                   ELSE [sup EXCEPT !.mu = c,
                                  !.ticker = IF @ = "nil" THEN "nil" ELSE "stopped",
                                  !.stopChan = "closed",
                                  !.stop[c] = "wait"]
    /\ UNCHANGED << sessionVars, DBConnections, Metrics, LastPoolExhaustion,
                    amVars, dispVars, hook >>

\* Stop: wg.Wait() returns, running = false, the deferred Unlock
StopWait(c) ==
    /\ sup.stop[c] = "wait"
    /\ sup.wg = 0
    /\ sup' = [sup EXCEPT !.running = FALSE, !.mu = 0, !.stop[c] = "returned"]
    /\ UNCHANGED << sessionVars, DBConnections, Metrics, LastPoolExhaustion,
                    amVars, dispVars, hook >>

\* the node is up, no client connected, no supervisor started
StopInit ==
    /\ IsPoolEnabled = TRUE
    /\ MaxPool = MaxPoolCfg
    /\ DBConnections = EmptyMap
    /\ Metrics = [c \in Counters |-> 0]
    /\ NoRequests
    /\ sup \in {NewSupervisor(kind) : kind \in Supervisors}
    /\ hook = NoHook
    /\ NoAlerts
    /\ Started

StopNext ==
    \/ StartLock
    \/ StartLaunch
    \/ TickFire
    \/ CancelCtx
    \/ LoopTick
    \/ LoopExit
    \/ LoopCheck
    \/ LoopLock
    \/ LoopUnlock
    \/ \E c \in 1..StopCallers :
          \/ StopCall(c)
          \/ StopLock(c)
          \/ StopWait(c)

\* every goroutine that can take a step is scheduled; a mutex is handed to
\* each waiter in turn and a select with a ready stop case takes it in the end
StopFairness ==
    /\ WF_vars(StartLaunch)
    /\ WF_vars(LoopCheck)
    /\ WF_vars(LoopUnlock)
    /\ SF_vars(LoopExit)
    /\ SF_vars(LoopLock)
    /\ \A c \in 1..StopCallers :
          /\ SF_vars(StopLock(c))
          /\ WF_vars(StopWait(c))

StopSpec == StopInit /\ [][StopNext]_vars /\ StopFairness

(***************************************************************************)
(* The shutdown hook, ConnectionManager.CleanupAllConnections: it takes a  *)
(* copy of the pool and calls closeConnection on each token of the copy,   *)
(* while the TTL map goes on expiring entries.                             *)
(***************************************************************************)
\* sessions in the pool when the node shuts down
ShutdownPool == 3

\* allConnections := DBConnections.Map(); entries keeps what was in the pool
CleanupAllConnections ==
    /\ hook.pc = "idle"
    /\ hook' = [pc |-> "range", allConnections |-> DOMAIN DBConnections,
                entries |-> {DBConnections[t].val : t \in DOMAIN DBConnections},
                count |-> 0]
    /\ UNCHANGED << sessionVars, DBConnections, Metrics, LastPoolExhaustion,
                    amVars, dispVars, sup >>

\* one turn of the range loop, closeConnection(token): an entry that is no
\* longer in the pool is passed over; otherwise Close is invoked, counted in
\* the metrics if it succeeded, the entry deleted and the turn counted
closeConnection(token, closeOK) ==
    /\ hook.pc = "range"
    /\ token \in hook.allConnections
    /\ IF token \in DOMAIN DBConnections
       THEN /\ drivers' = [drivers EXCEPT ![DBConnections[token].val] = "closed"]
            /\ Metrics' = IF closeOK THEN RecordConnectionClosed(Metrics)
                                     ELSE Metrics
            /\ DBConnections' = Delete(DBConnections, token)
            /\ hook' = [hook EXCEPT !.allConnections = @ \ {token},
                                    !.count = @ + 1]
       ELSE /\ hook' = [hook EXCEPT !.allConnections = @ \ {token}]
            /\ UNCHANGED << drivers, Metrics, DBConnections >>
    /\ UNCHANGED << IsPoolEnabled, MaxPool, InternalConnection, TokenMap,
                    RefreshTokenMap, tokens, pc, req, tokmap, newDB, resp,
                    issued, consumed, poolBefore, cm, connectReq, user,
                    cfgVars, LastPoolExhaustion, amVars, dispVars, sup >>

\* the range loop is over: return count
CleanupReturn ==
    /\ hook.pc = "range"
    /\ hook.allConnections = {}
    /\ hook' = [hook EXCEPT !.pc = "returned"]
    /\ UNCHANGED << sessionVars, DBConnections, Metrics, LastPoolExhaustion,
                    amVars, dispVars, sup >>

\* the node at shutdown: some sessions hold pool entries of various ages,
\* nobody is being admitted
ShutdownInit ==
    /\ IsPoolEnabled = TRUE
    /\ MaxPool = ShutdownPool
    /\ \E n \in 0..ShutdownPool :
          /\ \E age \in [1..n -> 1..RefreshExp] :
                DBConnections = [k \in 1..n |-> [ttl |-> age[k], val |-> k]]
          /\ TokenMap = [k \in 1..n |-> [ttl |-> TokenExp, val |-> k]]
          /\ RefreshTokenMap = [k \in 1..n |-> [ttl |-> RefreshExp, val |-> k]]
          /\ tokens = [k \in 1..n |-> [UserName |-> k]]
          /\ drivers = [k \in 1..n |-> "open"]
          /\ issued = 1..n
          /\ Metrics = MetricsOf(<<n, 0>>, <<0, 0>>)
    /\ pc = [p \in Procs |-> "idle"]
    /\ req = [p \in Procs |-> NoReq]
    /\ tokmap = [p \in Procs |-> NoToken]
    /\ newDB = [p \in Procs |-> 0]
    /\ resp = [p \in Procs |-> NoResp]
    /\ consumed = {}
    /\ poolBefore = [p \in Procs |-> {}]
    /\ cm = [pc |-> "wait", sizeBefore |-> 0]
    /\ connectReq = [p \in Procs |-> [Password |-> ""]]
    /\ user = [p \in Procs |-> [Password |-> ""]]
    /\ request = NoRequest
    /\ calls = << >>
    /\ response = NoResponse
    /\ NoShutdown
    /\ NoAlerts
    /\ Started

ShutdownNext ==
    \/ CleanupAllConnections
    \/ \E token \in 1..ShutdownPool, closeOK \in BOOLEAN :
          closeConnection(token, closeOK)
    \/ CleanupReturn
    \/ Tick

ShutdownSpec == ShutdownInit /\ [][ShutdownNext]_vars

(***************************************************************************)
(* Properties.                                                             *)
(***************************************************************************)
Done(p) == pc[p] = "done"
ConnectDone(p) == Done(p) /\ req[p].kind = "connect"
RefreshDone(p) == Done(p) /\ req[p].kind = "refresh"

\* C1: with the pool enabled the pool never holds more entries than MaxPool.
C1_PoolCapacity == IsPoolEnabled => Len(DBConnections) <= MaxPool

\* Three distinct users with valid credentials have authenticated against an
\* empty pool of capacity 2, nothing else was requested, every driver opened
\* and no tick elapsed since the first token was saved.
C2_Scenario ==
    /\ IsPoolEnabled
    /\ MaxPool = 2
    /\ Cardinality({p \in Procs : ConnectDone(p)}) = 3
    /\ \A p \in Procs : ConnectDone(p) =>
          req[p].known /\ req[p].pwOK /\ resp[p].status \in {200, 406}
    /\ \A k \in DOMAIN tokens :
          k \in DOMAIN RefreshTokenMap /\ RefreshTokenMap[k].ttl = RefreshExp

\* C2: max_pool = 2, three users authenticate concurrently: exactly two are
\* admitted, exactly one fails with pool-exhausted and the pool-exhaustion
\* counter has increased by exactly one.
C2_ThreeUsers ==
    C2_Scenario =>
        /\ Cardinality({p \in Procs : resp[p].status = 200}) = 2
        /\ Cardinality({p \in Procs : resp[p].status = 406}) = 1
        /\ Metrics.PoolExhaustionCount = 1

\* the step in which refresh request p returns its new token record
RefreshReturns(p) == pc[p] = "put" /\ pc'[p] = "done" /\ req[p].kind = "refresh"

\* C3: when a refresh presenting t.refresh returns t', t' differs from t in
\* both tokens, the pool holds nothing under t.access and holds an entry
\* under t'.access.
C3_RefreshRebinds ==
    [][\A p \in Procs : RefreshReturns(p) =>
          /\ req[p].Refresh \in issued
          /\ resp'[p].status = 200
          /\ resp'[p].token # req[p].Refresh
          /\ tokmap[p] \notin DOMAIN DBConnections'
          /\ resp'[p].token \in DOMAIN DBConnections']_vars

\* a refresh returned a pair whose access token keys a pool entry
C3_Witness ==
    \E p \in Procs : RefreshDone(p) /\ resp[p].status = 200
                        /\ resp[p].token \in DOMAIN DBConnections

\* the step in which refresh request p is received and its token checked
RefreshArrives(p) ==
    Idle(p) /\ ~Idle(p)' /\ req'[p].kind = "refresh"

\* C4 as stated: a refresh succeeds if and only if its refresh token is live
\* when it is checked (tokmap[p] is the record the check found, if any).
C4_SucceedsIffLive ==
    \A p \in Procs : RefreshDone(p) =>
        (resp[p].status = 200 <=> tokmap[p] # NoToken)

\* C4 amended: a refresh whose token is live in the refresh map passes the
\* check and one whose token is not live is rejected with 401, whether or not
\* the paired access token is live; a refresh succeeds only after it passed.
C4_LiveIsNecessary ==
    [][\A p \in Procs :
          /\ RefreshArrives(p) =>
                IF req'[p].Refresh \in DOMAIN RefreshTokenMap
                THEN pc'[p] = "close"
                ELSE pc'[p] = "done" /\ resp'[p].status = 401
          /\ RefreshReturns(p) => tokmap[p] # NoToken]_vars

\* a refresh succeeded although the access token of its record had expired
C4_Witness ==
    \E p \in Procs :
        /\ RefreshDone(p) /\ resp[p].status = 200
        /\ req[p].Refresh \notin DOMAIN TokenMap
        /\ resp[p].token \in DOMAIN TokenMap
        /\ TokenMap[resp[p].token].ttl = TokenExp

\* C5: once a refresh has succeeded the refresh token it presented is not
\* live any more, and every later refresh presenting it is rejected (401).
C5_RefreshTokenSingleUse ==
    [][/\ \A t \in consumed' : t \notin DOMAIN RefreshTokenMap'
       /\ \A p \in Procs :
             RefreshArrives(p) /\ req'[p].Refresh \in consumed =>
                 pc'[p] = "done" /\ resp'[p].status = 401]_vars

\* a second refresh with a consumed token was rejected while the pair that
\* replaced it is still fresh
C5_Witness ==
    \E p, q \in Procs :
        /\ p # q
        /\ RefreshDone(p) /\ resp[p].status = 200
        /\ RefreshDone(q) /\ resp[q].status = 401
        /\ req[q].Refresh = req[p].Refresh
        /\ req[q].Refresh \in consumed
        /\ resp[p].token \in DOMAIN RefreshTokenMap
        /\ RefreshTokenMap[resp[p].token].ttl = RefreshExp

\* C6: every pool entry is keyed by an access token whose token record is
\* still live in the token store (in the access map or in the refresh map).
C6_PoolEntryHasLiveToken ==
    \A k \in DOMAIN DBConnections :
        k \in DOMAIN TokenMap \/ k \in DOMAIN RefreshTokenMap

C8_GoneMeansClosed ==
    \A k \in issued : k \notin DOMAIN DBConnections => drivers[k] = "closed"

\* the step that ends one run of cleanupExpiredConnections
CleanupRan == cm.pc = "sized" /\ cm'.pc = "wait"

\* C9: a cleanup tick closes and removes every pool entry whose access token
\* is not live in the token store.
C9_CleanupReclaims ==
    [][CleanupRan =>
          \A k \in DOMAIN DBConnections :
              k \notin DOMAIN TokenMap =>
                  /\ k \notin DOMAIN DBConnections'
                  /\ drivers'[DBConnections[k].val] = "closed"]_vars

\* the step in which the pool refuses the authenticated request p
ConnectRefused(p) == pc[p] = "check" /\ pc'[p] = "done" /\ req[p].kind = "connect"

\* C10: when the pool refuses an authenticated request, the pool-exhaustion
\* counter goes up by one, the driver just opened is closed and the request
\* fails with "quota exceeded" (406).
C10_RefusalClosesDriver ==
    [][\A p \in Procs : ConnectRefused(p) =>
          /\ Metrics'.PoolExhaustionCount = Metrics.PoolExhaustionCount + 1
          /\ resp'[p].status = 406
          /\ drivers'[newDB[p]] = "closed"]_vars

\* C11: a successful refresh leaves the number of pool entries unchanged:
\* when nothing but this refresh changed the pool's keys since the request was
\* accepted, the pool is as large at its return as it was then.
C11_RefreshKeepsPoolSize ==
    [][\A p \in Procs :
          /\ RefreshReturns(p)
          /\ DOMAIN DBConnections' \ {newDB[p]} = poolBefore[p] \ {tokmap[p]}
          => Len(DBConnections') = Cardinality(poolBefore[p])]_vars

\* C12: once an authenticate request has returned, neither the record decoded
\* from its body nor the record loaded from the user table holds a password.
C12_NoPasswordAfterReturn ==
    \A p \in Procs : ConnectDone(p) =>
        connectReq[p].Password = "" /\ user[p].Password = ""

\* the step in which request p is rejected for a wrong password
WrongPassword(p) ==
    /\ Idle(p) /\ ~Idle(p)'
    /\ req'[p].kind = "connect" /\ req'[p].known /\ ~req'[p].pwOK

\* C15: each authenticate request rejected for a wrong password raises
\* authentication_attempts and authentication_failures by one.
C15_WrongPasswordCounted ==
    [][\A p \in Procs : WrongPassword(p) =>
          /\ resp'[p].status = 401
          /\ Metrics'.AuthenticationAttempts = Metrics.AuthenticationAttempts + 1
          /\ Metrics'.AuthenticationFailures = Metrics.AuthenticationFailures + 1]_vars

\* C13: a rule that has fired for a band does not fire again for that band
\* before the cooldown has elapsed: any two alerts of the history with the
\* same title are at least alertCooldown apart.
C13_CooldownPerRule ==
    \A i, j \in DOMAIN am.alerts :
        i < j /\ am.alerts[i].Title = am.alerts[j].Title =>
            am.alerts[j].Timestamp - am.alerts[i].Timestamp >= alertCooldown

C16_RatesNeedTenSamples ==
    /\ "high authentication failure rate" \in GetHealthStatus.issues =>
           Metrics.AuthenticationAttempts >= 10
    /\ "high query failure rate" \in GetHealthStatus.issues =>
           Metrics.QueriesExecuted >= 10


\* ConnectInternal has returned nil and ApplyAllConfig ran only there
AfterStartup == startup \in {"connected", "running"} /\ applied = 1

\* C17: after startup with at least one peer listed in the settings, the
\* effective pool maximum is the configured max_pool value times the number
\* of peers.
C17_PeerScaledMaximum ==
    /\ AfterStartup
    /\ Status.Peers # {}
    /\ SettingExist(Settings, SETTING_CATEGORY_CONNECTION, SETTING_KEY_MAX_POOL)
    /\ Settings[SETTING_CATEGORY_CONNECTION][SETTING_KEY_MAX_POOL] > 0
    => MaxPool = Settings[SETTING_CATEGORY_CONNECTION][SETTING_KEY_MAX_POOL]
                    * Cardinality(Status.Peers)

\* C18: after the configuration was resolved at startup, every field with
\* a non-empty environment value holds that value, token expiry, refresh
\* expiry and sweep interval included.
C18_EnvironmentWins ==
    AfterStartup =>
        /\ Env.Host # "" => Config.Host = Env.Host
        /\ Env.TokenExp > 0 => Config.TokenExp = Env.TokenExp
        /\ Env.RefreshExp > 0 => Config.RefreshExp = Env.RefreshExp
        /\ Env.TTLTicker > 0 => Config.TTLTicker = Env.TTLTicker

\* C19: once the settings were applied, a max_pool setting of 0 with the
\* pool enabled gives the default capacity, on the first application and
\* on every later one (no peer listed, so that no scaling interferes).
C19_ZeroMaxPoolFallsBack ==
    /\ applied >= 1
    /\ Status.Peers = {}
    /\ SettingExist(Settings, SETTING_CATEGORY_CONNECTION, SETTING_KEY_MAX_POOL)
    /\ Settings[SETTING_CATEGORY_CONNECTION][SETTING_KEY_MAX_POOL] = 0
    /\ IsPoolEnabled
    => MaxPool = DEFAULT_MAX_POOL

\* C20: whatever configuration the node ends up running with, the access
\* token TTL of the token store is strictly shorter than its refresh TTL.
C20_AccessShorterThanRefresh ==
    startup = "running" => TokenStore.TokenMap < TokenStore.RefreshTokenMap

\* the request carried a token and a well-formed body
Parsed == request.handler # "none" /\ request.token # NoToken /\ request.bindOK

\* the body passes the handler's validation
ValidBody ==
    IF request.handler = "HandleInsert" THEN Size(request.body.Records) > 0
    ELSE IF request.handler = "HandleQuery"
    THEN ValidateTableName(request.body.Table, FALSE)
    ELSE Size(request.body.Statements) > 0 \/ Size(request.body.ParamSQL) > 0

\* the token resolves to a driver
HasConnection == ~IsPoolEnabled \/ request.token \in DOMAIN DBConnections

\* a request with valid inputs
ValidRequest == Parsed /\ ValidBody /\ HasConnection

\* the operations of each request shape
OperationsOf(handler) ==
    IF handler = "HandleInsert"
    THEN {"InsertOneDBRecord", "InsertManyDBRecordsSameTable", "InsertManyDBRecords"}
    ELSE IF handler = "HandleQuery"
    THEN {"SelectOneWithCondition", "SelectOne", "SelectManyWithCondition", "SelectMany"}
    ELSE IF handler = "HandleSQLExecution"
    THEN {"ExecOneSQL", "ExecManySQL", "ExecOneSQLParameterized",
          "ExecManySQLParameterized"}
    ELSE {"SelectOnlyOneSQL", "SelectOneSQL", "SelectManySQL",
          "SelectOnlyOneSQLParameterized", "SelectOneSQLParameterized",
          "SelectManySQLParameterized"}

\* C21: a request with valid inputs invokes exactly one driver operation of
\* its shape, once; an InsertRequest invokes InsertOneDBRecord for one
\* record, InsertManyDBRecordsSameTable for several records with same_table
\* and InsertManyDBRecords for several records without it.
C21_OneOperationPerRequest ==
    ValidRequest =>
        /\ Size(calls) = 1
        /\ calls[1].op \in OperationsOf(request.handler)
        /\ request.handler = "HandleInsert" =>
              calls[1].op =
                 IF Size(request.body.Records) = 1 THEN "InsertOneDBRecord"
                 ELSE IF request.body.SameTable THEN "InsertManyDBRecordsSameTable"
                 ELSE "InsertManyDBRecords"

C21_Witness ==
    /\ ValidRequest
    /\ request.handler = "HandleInsert"
    /\ Size(request.body.Records) > 1
    /\ request.body.SameTable
    /\ Size(calls) = 1
    /\ calls[1].op = "InsertManyDBRecordsSameTable"
    /\ response.status = 200

\* the raw-statement operations
RawOperations ==
    {"ExecOneSQL", "ExecManySQL", "SelectOnlyOneSQL", "SelectOneSQL", "SelectManySQL"}

\* C22: a QueryRequest is routed by (singleRow, hasFilter) as in the routing
\* table, hasFilter being false for an absent filter and for a filter whose
\* fields are all zero-valued, and true for every other filter.
C22_QueryRouting ==
    ValidRequest /\ request.handler = "HandleQuery" =>
        LET hasFilter == request.body.Condition \notin {NilCondition, EmptyCondition}
        IN  /\ Size(calls) = 1
            /\ calls[1].op =
                  IF request.body.SingleRow
                  THEN IF hasFilter THEN "SelectOneWithCondition" ELSE "SelectOne"
                  ELSE IF hasFilter THEN "SelectManyWithCondition" ELSE "SelectMany"

\* C23: a SQLRequest or QuerySQLRequest with both a non-empty list of raw
\* statements and a non-empty list of parameterised statements has only the
\* raw statements executed; no parameterised statement reaches the driver.
C23_RawStatementsPreferred ==
    /\ ValidRequest
    /\ request.handler \in {"HandleSQLExecution", "HandleSQLQuery"}
    /\ Size(request.body.Statements) > 0
    /\ Size(request.body.ParamSQL) > 0
    => /\ Size(calls) = 1
       /\ \A i \in DOMAIN calls :
             /\ calls[i].op \in RawOperations
             /\ calls[i].arg \in {request.body.Statements,
                                  request.body.Statements[1]}

C23_Witness ==
    /\ ValidRequest
    /\ request.handler = "HandleSQLQuery"
    /\ Size(request.body.Statements) > 1
    /\ Size(request.body.ParamSQL) > 0
    /\ calls[1].op = "SelectManySQL"
    /\ response.status = 200

\* the records a response carries
RecordsOf(data) ==
    IF "Records" \in DOMAIN data THEN data.Records
    ELSE IF "Responses" \in DOMAIN data THEN data.Responses
    ELSE << >>

C25_InternalTableForbidden ==
    /\ Parsed
    /\ request.handler = "HandleQuery"
    /\ request.body.Table.len > 0
    /\ request.body.Table.first = "underscore"
    => response.status = 403 /\ calls = << >>

\* C26: with the pool enabled, a request presenting an access token for
\* which the pool holds no entry fails with the 401-class "no connection"
\* error and invokes no driver operation.
C26_NoConnectionIsUnauthorized ==
    /\ Parsed
    /\ ValidBody
    /\ IsPoolEnabled
    /\ request.token \notin DOMAIN DBConnections
    => response.status = 401 /\ calls = << >>

\* C27: Stop on the alert supervisor and on the cleanup supervisor always
\* returns: a goroutine that has called Stop gets out of it in the end,
\* whatever the loop was doing
C27_StopAlwaysReturns ==
    \A c \in 1..StopCallers :
       (sup.stop[c] # "idle") ~> (sup.stop[c] = "returned")

\* C28: when the shutdown hook returns the pool is empty, every driver that
\* was in the pool when it was called has had Close invoked, and the count
\* returned is the number of entries that were in the pool
C28_ShutdownClosesAll ==
    hook.pc = "returned"
    => /\ Len(DBConnections) = 0
       /\ \A d \in hook.entries : drivers[d] = "closed"
       /\ hook.count = Cardinality(hook.entries)

\* C29: a connect refused for an unknown username and one refused for a wrong
\* password are alike: the password hash was computed and the answer is the
\* same 401 "Invalid credentials"
C29_UnknownUserLikeWrongPassword ==
    \A p \in Procs :
        ConnectDone(p) /\ resp[p].status = 401
        => Authenticate(req[p].known, req[p].pwOK) =
              [status |-> 401, message |-> "Invalid credentials", hashed |-> TRUE]

\* C30: with the pool enabled no driver is bound under two access tokens at
\* once, and the driver a request is handed for its token is the one that
\* was opened for that token
C30_OneDriverPerToken ==
    IsPoolEnabled =>
        /\ \A t, u \in DOMAIN DBConnections :
               t # u => DBConnections[t].val # DBConnections[u].val
        /\ \A t \in DOMAIN tokens :
               GetDBConnectionByToken(t).ok => GetDBConnectionByToken(t).db = t

\* two sessions hold pool entries at once, one of them bound by a refresh
C30_Witness ==
    /\ IsPoolEnabled
    /\ \E p, q \in Procs :
          /\ RefreshDone(p) /\ resp[p].status = 200
          /\ ConnectDone(q) /\ resp[q].status = 200
          /\ resp[p].token # resp[q].token
          /\ GetDBConnectionByToken(resp[p].token).ok
          /\ GetDBConnectionByToken(resp[q].token).ok

\* C31: after a successful refresh the access token of the replaced pair is
\* not live any more: TokenExist reports it absent
C31_OldAccessTokenDead ==
    \A p \in Procs :
        RefreshDone(p) /\ resp[p].status = 200 => ~TokenExist(tokmap[p]).ok

\* C32: the expiries written into a token record are its creation time plus
\* the configured token TTL and the configured refresh TTL
C32_ExpiriesFollowConfig ==
    [][\A k \in DOMAIN tokens' \ DOMAIN tokens :
          /\ tokens'[k].TokenExpiresAt = now + Config.TokenExp
          /\ tokens'[k].RefreshExpiresAt = now + Config.RefreshExp]_vars

\* C33: of the refresh requests presenting one refresh token at most one
\* succeeds
C33_OneRefreshPerToken ==
    \A p, q \in Procs :
        /\ RefreshDone(p) /\ resp[p].status = 200
        /\ RefreshDone(q) /\ resp[q].status = 200
        /\ req[p].Refresh = req[q].Refresh
        => p = q

\* C34: an authenticate request that has failed, for whatever reason, has left
\* no new token live in either map of the token store
C34_FailedConnectLeavesStore ==
    \A p \in Procs :
        ConnectDone(p) /\ resp[p].status # 200
        => ~TokenExist(newDB[p]).ok /\ ~RefreshTokenExist(newDB[p]).ok

\* C35: a refresh that has failed after its refresh token was accepted has
\* left the session as it was: the old access token has its pool entry, that
\* driver is open and no new token is live
C35_FailedRefreshLeavesSession ==
    \A p \in Procs :
        RefreshDone(p) /\ resp[p].status \in {500, 503}
        => /\ tokmap[p] \in DOMAIN DBConnections
           /\ drivers[tokmap[p]] = "open"
           /\ ~TokenExist(newDB[p]).ok
           /\ ~RefreshTokenExist(newDB[p]).ok

\* C36: with the pool disabled an authenticate request with valid credentials
\* (whose driver opened) succeeds with a token pair, and a request made with
\* that token is served by the internal connection
C36_PoolDisabledAdmitsAll ==
    \A p \in Procs :
        /\ ~IsPoolEnabled
        /\ ConnectDone(p) /\ req[p].known /\ req[p].pwOK
        /\ resp[p].status # 500
        => /\ resp[p].status = 200
           /\ resp[p].token # NoToken
           /\ GetDBConnectionByToken(resp[p].token) = [ok |-> TRUE, db |-> 0]

\* C37: no session operation closes the internal connection of the node,
\* whether the pool is enabled or disabled
C37_InternalDriverStaysOpen == InternalConnection = "open"

\* C38: a supervisor that was stopped can be started again: the loop Start
\* launches after a Stop waits for ticks on an open stop channel, and a
\* further Stop returns normally
C38_RestartAfterStop ==
    /\ sup.starts = MaxStarts /\ sup.loop \in {"select", "check"}
       /\ (\E c \in 1..StopCallers : sup.stop[c] = "returned")
       /\ (\A c \in 1..StopCallers : sup.stop[c] \in {"idle", "returned"})
       => sup.stopChan = "open"
    /\ \A c \in 1..StopCallers : sup.stop[c] # "panic"

\* C39: a startup that has reached the settings table continues when the
\* table is empty (the driver reports no rows) and aborts when the read
\* fails with any other driver error
C39_SettingsReadOutcome ==
    startup # "boot" /\ InternalConnection = "open"
    => /\ db.settingsErr = "no-rows" => startup # "failed"
       /\ db.settingsErr = "other" => startup = "failed"

=============================================================================
